---- MODULE Spec2Model ----
(***************************************************************************)
(* The chess-package engine of bubblechess (package chess: Board,          *)
(* ChessGame, parseMove, findPiece, isValidMove, executeMove, Update).     *)
(* Tokens are sequences of one-character strings; move[i] of the Go code   *)
(* is move[i+1] here.  A game value g is the record                        *)
(* [board, currentPlayer, status] that the methods of *ChessGame read and  *)
(* write; a method that writes returns the new game value.                 *)
(***************************************************************************)
EXTENDS Integers, Sequences, FiniteSets, TLC

(* ------------------------------------------------------------------ *)
(* Bounds of the model                                                 *)
(* ------------------------------------------------------------------ *)
\* executed moves per game in the interactive specification
MaxMoves == 8
\* calls of executeMove in the call-level specification, the script apart
MaxCalls == 4
\* executed moves in the specification of the tests' play loop
MaxPlays == 3
\* keys typed into the move input of the game package before it is submitted
MaxInput == 2
\* moves recorded in gameHistory of the game package
MaxHistory == 2
\* commands of the game package returned and not yet run
MaxPending == 2
MaxMainMoves == 3
MaxMaxRetries == 3
MaxMoveHistory == 2

(* ------------------------------------------------------------------ *)
(* Pieces and the board                                                *)
(* ------------------------------------------------------------------ *)
Pawn == 0
Rook == 1
Knight == 2
Bishop == 3
Queen == 4
King == 5

gameStatePlaying == 0
gameStateMenu == 3

displayModeTUI == 0
displayModeText == 1

\* package game: GameMode, and the CharLimit of the move input
ModeMenu == 0
ModeHumanVsHuman == 1
ModeHumanVsAI == 2
CharLimit == 10

\* a nil *Piece
nil == [isNil |-> TRUE, White |-> FALSE, Type |-> Pawn]

Piece(white, type) == [isNil |-> FALSE, White |-> white, Type |-> type]

Rows == 0 .. 7

\* setupPieces: pawns on rows 1 (Black) and 6 (White), the other pieces on
\* rows 0 (Black) and 7 (White)
BackRank == <<Rook, Knight, Bishop, Queen, King, Bishop, Knight, Rook>>

setupPieces ==
  [i \in Rows |->
     [j \in Rows |->
        CASE i = 0 -> Piece(FALSE, BackRank[j + 1])
          [] i = 1 -> Piece(FALSE, Pawn)
          [] i = 6 -> Piece(TRUE, Pawn)
          [] i = 7 -> Piece(TRUE, BackRank[j + 1])
          [] OTHER -> nil]]

NewBoard ==
  [Squares |-> setupPieces,
   WhiteKingMoved |-> FALSE,
   WhiteRookKingsideMoved |-> FALSE,
   WhiteRookQueensideMoved |-> FALSE,
   BlackKingMoved |-> FALSE,
   BlackRookKingsideMoved |-> FALSE,
   BlackRookQueensideMoved |-> FALSE]

\* b.Squares[r][c] = p
SetSquare(sq, r, c, p) == [sq EXCEPT ![r][c] = p]

(* ------------------------------------------------------------------ *)
(* Bytes of a token                                                    *)
(* ------------------------------------------------------------------ *)
CharCode ==
  ("a" :> 97) @@ ("b" :> 98) @@ ("c" :> 99) @@ ("d" :> 100) @@
  ("e" :> 101) @@ ("f" :> 102) @@ ("g" :> 103) @@ ("h" :> 104) @@
  ("x" :> 120) @@
  ("0" :> 48) @@ ("1" :> 49) @@ ("2" :> 50) @@ ("3" :> 51) @@ ("4" :> 52) @@
  ("5" :> 53) @@ ("6" :> 54) @@ ("7" :> 55) @@ ("8" :> 56) @@ ("9" :> 57) @@
  ("K" :> 75) @@ ("Q" :> 81) @@ ("R" :> 82) @@ ("B" :> 66) @@ ("N" :> 78) @@
  ("O" :> 79) @@ ("-" :> 45) @@ ("+" :> 43) @@ ("#" :> 35) @@ ("=" :> 61)

\* int(c - base) on bytes: the subtraction wraps modulo 256
ByteDiff(c, base) == (CharCode[c] - CharCode[base] + 256) % 256

\* move[i] of the Go code (0-based)
At(move, i) == move[i + 1]

\* a variant of abs that returns its argument
abs_Identity(x) == x

abs(x) == IF x < 0 THEN -x ELSE x

OO == <<"O", "-", "O">>
ZZ == <<"0", "-", "0">>
OOO == <<"O", "-", "O", "-", "O">>
ZZZ == <<"0", "-", "0", "-", "0">>

CastlingTokens == {OO, ZZ, OOO, ZZZ}

(* ------------------------------------------------------------------ *)
(* Piece locator                                                       *)
(* ------------------------------------------------------------------ *)
\* the hint byte of canDisambiguate, move[1], as its code
HintMatches(row, col, code) ==
  IF code >= 97 /\ code <= 104 THEN (code - 97) % 256 = col
  ELSE IF code >= 49 /\ code <= 56 THEN (code - 49) % 256 = row
  ELSE TRUE

canDisambiguate(row, col, move) ==
  IF Len(move) >= 2 THEN HintMatches(row, col, CharCode[At(move, 1)]) ELSE TRUE

\* the first square of S in the scan order of findPiece (row by row)
FirstInScan(S) ==
  CHOOSE p \in S : \A q \in S : p[1] * 8 + p[2] <= q[1] * 8 + q[2]

Found(p) == [row |-> p[1], col |-> p[2], found |-> TRUE]

\* the squares holding a piece of the kind and colour, candidates of findPiece
Candidates(g, pieceType, isWhite) ==
  {p \in Rows \X Rows :
     LET q == g.board.Squares[p[1]][p[2]]
     IN  ~q.isNil /\ q.Type = pieceType /\ q.White = isWhite}

\* a variant of Disambiguate that falls back to the last candidate of the scan
Disambiguate_FallsBackToLast(candidates, hinted) ==
  IF hinted # {} THEN Found(FirstInScan(hinted))
  ELSE Found(CHOOSE p \in candidates :
               \A q \in candidates : p[1] * 8 + p[2] >= q[1] * 8 + q[2])

\* the loop over the candidates: the first one the hint accepts, else the first
Disambiguate(candidates, hinted) ==
  IF hinted # {} THEN Found(FirstInScan(hinted)) ELSE Found(FirstInScan(candidates))

\* a variant of PickCandidate that never looks at the hint
PickCandidate_First(candidates, move) ==
  IF candidates = {} THEN [row |-> 0, col |-> 0, found |-> FALSE]
  ELSE Found(FirstInScan(candidates))

PickCandidate(candidates, move) ==
  IF candidates = {} THEN [row |-> 0, col |-> 0, found |-> FALSE]
  ELSE IF Cardinality(candidates) = 1 THEN Found(FirstInScan(candidates))
  ELSE Disambiguate(candidates,
                    {p \in candidates : canDisambiguate(p[1], p[2], move)})

findPiece(g, pieceType, isWhite, move) ==
  PickCandidate(Candidates(g, pieceType, isWhite), move)

(* ------------------------------------------------------------------ *)
(* Notation parser                                                     *)
(* ------------------------------------------------------------------ *)
ParseError == [fromRow |-> 0, fromCol |-> 0, toRow |-> 0, toCol |-> 0, err |-> TRUE]

Parsed(fr, fc, tr, tc) ==
  [fromRow |-> fr, fromCol |-> fc, toRow |-> tr, toCol |-> tc, err |-> FALSE]

CastlingFrom(k, kingside) ==
  IF ~k.found THEN ParseError
  ELSE IF kingside THEN Parsed(k.row, k.col, k.row, k.col + 2)
  ELSE Parsed(k.row, k.col, k.row, k.col - 2)

parseCastling(g, move, kingside) ==
  CastlingFrom(findPiece(g, King, g.currentPlayer, <<>>), kingside)

\* the piece kind named by the first byte of a short-notation token
PieceTypeOf(pieceChar) ==
  CASE pieceChar = "K" -> King
    [] pieceChar = "Q" -> Queen
    [] pieceChar = "R" -> Rook
    [] pieceChar = "B" -> Bishop
    [] pieceChar = "N" -> Knight
    [] OTHER -> Pawn

\* destStart after the loop over the check and mate markers: every index i
\* holding '+' or '#' assigns i - 1, the loop runs downwards, so the
\* smallest such index decides
FirstMark(marks, len) ==
  IF marks = {} THEN len - 1
  ELSE (CHOOSE i \in marks : \A j \in marks : i <= j) - 1

DestStartAfterMarkers(move) ==
  FirstMark({i \in 0 .. Len(move) - 1 : At(move, i) \in {"+", "#"}}, Len(move))

\* the promotion marker: "=" right before destStart moves it two to the left
AfterPromotion(move, d0) ==
  IF d0 >= 2 /\ At(move, d0 - 1) = "=" THEN d0 - 2 ELSE d0

\* the destination bytes decoded; the row is turned over (7 - toRow)
ShortDest(f, toCol, toRow) ==
  IF toCol < 0 \/ toCol > 7 \/ toRow < 0 \/ toRow > 7 THEN ParseError
  ELSE Parsed(f.row, f.col, 7 - toRow, toCol)

ShortFrom(f, move, destStart) ==
  IF ~f.found THEN ParseError
  ELSE IF destStart < 2 THEN ParseError
  ELSE ShortDest(f, ByteDiff(At(move, destStart - 1), "a"),
                 ByteDiff(At(move, destStart), "1"))

parseShortNotation(g, move) ==
  IF Len(move) < 2 THEN ParseError
  ELSE IF move = OO \/ move = ZZ THEN parseCastling(g, move, TRUE)
  ELSE IF move = OOO \/ move = ZZZ THEN parseCastling(g, move, FALSE)
  ELSE ShortFrom(findPiece(g, PieceTypeOf(At(move, 0)), g.currentPlayer, move),
                 move, AfterPromotion(move, DestStartAfterMarkers(move)))

InRange(x) == x >= 0 /\ x <= 7

\* the four bytes of a long-notation token decoded; no row is turned over
LongSquares(fromCol, fromRow, toCol, toRow) ==
  InRange(fromCol) /\ InRange(fromRow) /\ InRange(toCol) /\ InRange(toRow)

parseMove(g, move) ==
  IF /\ Len(move) = 4
     /\ LongSquares(ByteDiff(At(move, 0), "a"), ByteDiff(At(move, 1), "1"),
                    ByteDiff(At(move, 2), "a"), ByteDiff(At(move, 3), "1"))
    THEN Parsed(ByteDiff(At(move, 1), "1"), ByteDiff(At(move, 0), "a"),
                ByteDiff(At(move, 3), "1"), ByteDiff(At(move, 2), "a"))
  ELSE parseShortNotation(g, move)

(* ------------------------------------------------------------------ *)
(* Legality validator                                                  *)
(* ------------------------------------------------------------------ *)
\* a variant of isValidCastling that looks only at the square next to the King
isValidCastling_NextSquareOnly(g, move) ==
  LET row == IF g.currentPlayer THEN 7 ELSE 0
      kingside == (move = OO \/ move = ZZ)
      kingFlag == IF g.currentPlayer THEN g.board.WhiteKingMoved
                  ELSE g.board.BlackKingMoved
      rookFlag == CASE g.currentPlayer /\ kingside -> g.board.WhiteRookKingsideMoved
                    [] g.currentPlayer /\ ~kingside -> g.board.WhiteRookQueensideMoved
                    [] ~g.currentPlayer /\ kingside -> g.board.BlackRookKingsideMoved
                    [] OTHER -> g.board.BlackRookQueensideMoved
  IN  /\ ~kingFlag /\ ~rookFlag
      /\ g.board.Squares[row][IF kingside THEN 5 ELSE 3].isNil

isValidCastling(g, move) ==
  LET isKingside == (move = OO \/ move = ZZ)
      b == g.board
  IN  IF g.currentPlayer
        THEN IF isKingside
               THEN IF b.WhiteKingMoved \/ b.WhiteRookKingsideMoved THEN FALSE
                    ELSE IF ~b.Squares[7][5].isNil \/ ~b.Squares[7][6].isNil THEN FALSE
                    ELSE TRUE
             ELSE IF b.WhiteKingMoved \/ b.WhiteRookQueensideMoved THEN FALSE
                  ELSE IF \/ ~b.Squares[7][1].isNil \/ ~b.Squares[7][2].isNil
                          \/ ~b.Squares[7][3].isNil THEN FALSE
                  ELSE TRUE
      ELSE IF isKingside
             THEN IF b.BlackKingMoved \/ b.BlackRookKingsideMoved THEN FALSE
                  ELSE IF ~b.Squares[0][5].isNil \/ ~b.Squares[0][6].isNil THEN FALSE
                  ELSE TRUE
           ELSE IF b.BlackKingMoved \/ b.BlackRookQueensideMoved THEN FALSE
                ELSE IF \/ ~b.Squares[0][1].isNil \/ ~b.Squares[0][2].isNil
                        \/ ~b.Squares[0][3].isNil THEN FALSE
                ELSE TRUE

\* a variant of PieceRule in which a pawn may step diagonally onto an empty
\* square
PieceRule_PawnDiagonalToEmpty(g, fromRow, fromCol, toRow, toCol) ==
  LET sq == g.board.Squares
      piece == sq[fromRow][fromCol]
      white == g.currentPlayer
  IN  CASE piece.Type = Pawn ->
             IF fromCol = toCol
               THEN /\ sq[toRow][toCol].isNil
                    /\ ~(white /\ fromRow = 6 /\ toRow = 4 /\ ~sq[5][fromCol].isNil)
                    /\ ~(~white /\ fromRow = 1 /\ toRow = 3 /\ ~sq[2][fromCol].isNil)
                    /\ \/ (white /\ (toRow = fromRow - 1 \/ toRow = fromRow - 2))
                       \/ (~white /\ (toRow = fromRow + 1 \/ toRow = fromRow + 2))
             ELSE IF abs(fromCol - toCol) = 1
               THEN \/ (white /\ toRow = fromRow - 1)
                    \/ (~white /\ toRow = fromRow + 1)
             ELSE FALSE
        [] piece.Type = King ->
             abs(fromRow - toRow) <= 1 /\ abs(fromCol - toCol) <= 1
        [] piece.Type = Knight ->
             \/ (abs(fromRow - toRow) = 2 /\ abs(fromCol - toCol) = 1)
             \/ (abs(fromRow - toRow) = 1 /\ abs(fromCol - toCol) = 2)
        [] piece.Type = Bishop -> abs(fromRow - toRow) = abs(fromCol - toCol)
        [] piece.Type = Rook -> fromRow = toRow \/ fromCol = toCol
        [] piece.Type = Queen -> TRUE
        [] OTHER -> FALSE

\* the switch on piece.Type of isValidMove, for a resolved move whose
\* origin holds a piece of the side to move and whose destination does not
PieceRule(g, fromRow, fromCol, toRow, toCol) ==
  LET sq == g.board.Squares
      piece == sq[fromRow][fromCol]
      white == g.currentPlayer
  IN  CASE piece.Type = Pawn ->
             IF fromCol = toCol
               THEN IF sq[toRow][toCol].isNil
                      THEN LET pathClear ==
                                 /\ ~(white /\ fromRow = 6 /\ toRow = 4
                                        /\ ~sq[5][fromCol].isNil)
                                 /\ ~(~white /\ fromRow = 1 /\ toRow = 3
                                        /\ ~sq[2][fromCol].isNil)
                           IN  /\ pathClear
                               /\ \/ (white /\ (toRow = fromRow - 1 \/ toRow = fromRow - 2))
                                  \/ (~white /\ (toRow = fromRow + 1 \/ toRow = fromRow + 2))
                    ELSE FALSE
             ELSE IF abs(fromCol - toCol) = 1
               THEN /\ ~sq[toRow][toCol].isNil
                    /\ sq[toRow][toCol].White # white
                    /\ \/ (white /\ toRow = fromRow - 1)
                       \/ (~white /\ toRow = fromRow + 1)
             ELSE FALSE
        [] piece.Type = King ->
             abs(fromRow - toRow) <= 1 /\ abs(fromCol - toCol) <= 1
        [] piece.Type = Knight ->
             LET rowDiff == abs(fromRow - toRow)
                 colDiff == abs(fromCol - toCol)
             IN  (rowDiff = 2 /\ colDiff = 1) \/ (rowDiff = 1 /\ colDiff = 2)
        [] piece.Type = Bishop -> abs(fromRow - toRow) = abs(fromCol - toCol)
        [] piece.Type = Rook -> fromRow = toRow \/ fromCol = toCol
        [] piece.Type = Queen -> TRUE
        [] OTHER -> FALSE

\* a variant of ValidParsed without the check of the destination's colour
ValidParsed_NoOwnCheck(g, m) ==
  IF m.err THEN FALSE
  ELSE IF g.board.Squares[m.fromRow][m.fromCol].isNil THEN FALSE
  ELSE IF g.board.Squares[m.fromRow][m.fromCol].White # g.currentPlayer THEN FALSE
  ELSE PieceRule(g, m.fromRow, m.fromCol, m.toRow, m.toCol)

\* a variant of ValidParsed without the check of the mover's colour
ValidParsed_NoTurnCheck(g, m) ==
  IF m.err THEN FALSE
  ELSE IF g.board.Squares[m.fromRow][m.fromCol].isNil THEN FALSE
  ELSE IF ~g.board.Squares[m.toRow][m.toCol].isNil
          /\ g.board.Squares[m.toRow][m.toCol].White = g.currentPlayer THEN FALSE
  ELSE PieceRule(g, m.fromRow, m.fromCol, m.toRow, m.toCol)

\* isValidMove once the token is parsed
ValidParsed(g, m) ==
  IF m.err THEN FALSE
  ELSE IF g.board.Squares[m.fromRow][m.fromCol].isNil THEN FALSE
  ELSE IF g.board.Squares[m.fromRow][m.fromCol].White # g.currentPlayer THEN FALSE
  ELSE IF ~g.board.Squares[m.toRow][m.toCol].isNil
          /\ g.board.Squares[m.toRow][m.toCol].White = g.currentPlayer THEN FALSE
  ELSE PieceRule(g, m.fromRow, m.fromCol, m.toRow, m.toCol)

isValidMove(g, move) ==
  IF move \in CastlingTokens THEN isValidCastling(g, move)
  ELSE ValidParsed(g, parseMove(g, move))

(* ------------------------------------------------------------------ *)
(* Move executor                                                       *)
(* ------------------------------------------------------------------ *)
\* a variant of TrackKing that assigns the flags instead of setting them
TrackKing_Assign(b, piece) ==
  [b EXCEPT !.WhiteKingMoved = (piece.Type = King /\ piece.White),
            !.BlackKingMoved = (piece.Type = King /\ ~piece.White)]

\* "Track king movements"
TrackKing(b, piece) ==
  IF piece.Type = King
    THEN IF piece.White THEN [b EXCEPT !.WhiteKingMoved = TRUE]
         ELSE [b EXCEPT !.BlackKingMoved = TRUE]
  ELSE b

\* "Track rook movements"
TrackRook(b, piece, fromCol) ==
  IF piece.Type = Rook
    THEN IF piece.White
           THEN IF fromCol = 0 THEN [b EXCEPT !.WhiteRookQueensideMoved = TRUE]
                ELSE IF fromCol = 7 THEN [b EXCEPT !.WhiteRookKingsideMoved = TRUE]
                ELSE b
         ELSE IF fromCol = 0 THEN [b EXCEPT !.BlackRookQueensideMoved = TRUE]
              ELSE IF fromCol = 7 THEN [b EXCEPT !.BlackRookKingsideMoved = TRUE]
              ELSE b
  ELSE b

\* the flags once piece is read
TrackPiece(b, piece, fromCol) ==
  IF piece.isNil THEN b ELSE TrackRook(TrackKing(b, piece), piece, fromCol)

\* reads the piece on the destination square; executeMove calls it before
\* the piece is moved
trackPieceMovement(g, fromRow, fromCol, toRow, toCol) ==
  [g EXCEPT !.board = TrackPiece(g.board, g.board.Squares[toRow][toCol], fromCol)]

\* the king from (row, 4) to (row, kingTo), the rook from (row, rookFrom)
\* to (row, rookTo), in the order of the four assignments of the code
CastleSquares(sq, row, kingTo, rookFrom, rookTo) ==
  LET s1 == SetSquare(sq, row, kingTo, sq[row][4])
      s2 == SetSquare(s1, row, 4, nil)
      s3 == SetSquare(s2, row, rookTo, s2[row][rookFrom])
  IN  SetSquare(s3, row, rookFrom, nil)

CannotCastleMoved == "Cannot castle: King or rook has moved"
CannotCastleOccupied == "Cannot castle: Squares between king and rook are occupied"

\* a variant of executeCastling that passes the turn without moving the King
\* and the rook and without setting their flags
executeCastling_OnlyPassesTurn(g, move) ==
  IF isValidCastling(g, move) THEN [g EXCEPT !.currentPlayer = ~g.currentPlayer]
  ELSE [g EXCEPT !.status = CannotCastleMoved]

executeCastling(g, move) ==
  LET isKingside == (move = OO \/ move = ZZ)
      b == g.board
      sq == g.board.Squares
  IN  IF g.currentPlayer
        THEN IF isKingside
               THEN IF b.WhiteKingMoved \/ b.WhiteRookKingsideMoved
                      THEN [g EXCEPT !.status = CannotCastleMoved]
                    ELSE IF ~sq[7][5].isNil \/ ~sq[7][6].isNil
                      THEN [g EXCEPT !.status = CannotCastleOccupied]
                    ELSE [g EXCEPT
                            !.board = [b EXCEPT
                               !.Squares = CastleSquares(sq, 7, 6, 7, 5),
                               !.WhiteKingMoved = TRUE,
                               !.WhiteRookKingsideMoved = TRUE],
                            !.currentPlayer = ~g.currentPlayer]
             ELSE IF b.WhiteKingMoved \/ b.WhiteRookQueensideMoved
                    THEN [g EXCEPT !.status = CannotCastleMoved]
                  ELSE IF ~sq[7][1].isNil \/ ~sq[7][2].isNil \/ ~sq[7][3].isNil
                    THEN [g EXCEPT !.status = CannotCastleOccupied]
                  ELSE [g EXCEPT
                          !.board = [b EXCEPT
                             !.Squares = CastleSquares(sq, 7, 2, 0, 3),
                             !.WhiteKingMoved = TRUE,
                             !.WhiteRookQueensideMoved = TRUE],
                          !.currentPlayer = ~g.currentPlayer]
      ELSE IF isKingside
             THEN IF b.BlackKingMoved \/ b.BlackRookKingsideMoved
                    THEN [g EXCEPT !.status = CannotCastleMoved]
                  ELSE IF ~sq[0][5].isNil \/ ~sq[0][6].isNil
                    THEN [g EXCEPT !.status = CannotCastleOccupied]
                  ELSE [g EXCEPT
                          !.board = [b EXCEPT
                             !.Squares = CastleSquares(sq, 0, 6, 7, 5),
                             !.BlackKingMoved = TRUE,
                             !.BlackRookKingsideMoved = TRUE],
                          !.currentPlayer = ~g.currentPlayer]
           ELSE IF b.BlackKingMoved \/ b.BlackRookQueensideMoved
                  THEN [g EXCEPT !.status = CannotCastleMoved]
                ELSE IF ~sq[0][1].isNil \/ ~sq[0][2].isNil \/ ~sq[0][3].isNil
                  THEN [g EXCEPT !.status = CannotCastleOccupied]
                ELSE [g EXCEPT
                        !.board = [b EXCEPT
                           !.Squares = CastleSquares(sq, 0, 2, 0, 3),
                           !.BlackKingMoved = TRUE,
                           !.BlackRookQueensideMoved = TRUE],
                        !.currentPlayer = ~g.currentPlayer]

\* a variant of MovePiece that leaves the piece on its origin as well
MovePiece_KeepsOrigin(sq, m) ==
  SetSquare(sq, m.toRow, m.toCol, sq[m.fromRow][m.fromCol])

\* "Move piece"
MovePiece(sq, m) ==
  SetSquare(SetSquare(sq, m.toRow, m.toCol, sq[m.fromRow][m.fromCol]),
            m.fromRow, m.fromCol, nil)

\* a variant of MoveAndSwitch that leaves the turn with the mover
MoveAndSwitch_NoSwitch(g1, m) ==
  [g1 EXCEPT !.board = [g1.board EXCEPT !.Squares = MovePiece(g1.board.Squares, m)]]

\* "Move piece" and "Switch player", after trackPieceMovement
MoveAndSwitch(g1, m) ==
  [g1 EXCEPT !.board = [g1.board EXCEPT !.Squares = MovePiece(g1.board.Squares, m)],
             !.currentPlayer = ~g1.currentPlayer]

\* a variant of ApplyParsed in which a capture leaves the turn with the mover
ApplyParsed_CaptureKeepsTurn(g, m) ==
  IF m.err THEN [g EXCEPT !.status = "Error parsing move"]
  ELSE IF ~g.board.Squares[m.toRow][m.toCol].isNil
    THEN MoveAndSwitch_NoSwitch(
           trackPieceMovement(g, m.fromRow, m.fromCol, m.toRow, m.toCol), m)
  ELSE MoveAndSwitch(trackPieceMovement(g, m.fromRow, m.fromCol, m.toRow, m.toCol), m)

\* executeMove once the token is parsed
ApplyParsed(g, m) ==
  IF m.err THEN [g EXCEPT !.status = "Error parsing move"]
  ELSE MoveAndSwitch(trackPieceMovement(g, m.fromRow, m.fromCol, m.toRow, m.toCol), m)

\* a variant of executeMove in which a castling token passes the turn even
\* when executeCastling refuses it
executeMove_CastlingToggles(g, move) ==
  IF move \in CastlingTokens
    THEN [executeCastling(g, move) EXCEPT !.currentPlayer = ~g.currentPlayer]
  ELSE ApplyParsed(g, parseMove(g, move))

executeMove(g, move) ==
  IF move \in CastlingTokens THEN executeCastling(g, move)
  ELSE ApplyParsed(g, parseMove(g, move))

\* gameState is never gameStateCheckmate or gameStateStalemate: nothing
\* assigns them
updateStatus(g) ==
  IF g.currentPlayer THEN [g EXCEPT !.status = "White's turn"]
  ELSE [g EXCEPT !.status = "Black's turn"]

(* ------------------------------------------------------------------ *)
(* Tokens the user types and the tests pass                            *)
(* ------------------------------------------------------------------ *)
T_e2e4 == <<"e", "2", "e", "4">>
T_e7e5 == <<"e", "7", "e", "5">>
T_Nf3 == <<"N", "f", "3">>
T_Nf6 == <<"N", "f", "6">>
T_Bc4 == <<"B", "c", "4">>
T_Bc5 == <<"B", "c", "5">>
T_g8f6 == <<"g", "8", "f", "6">>
T_f8d6 == <<"f", "8", "d", "6">>
T_h8h5 == <<"h", "8", "h", "5">>
T_Kf1 == <<"K", "f", "1">>
T_Ke1 == <<"K", "e", "1">>
T_Nc6 == <<"N", "c", "6">>
T_c3b1 == <<"c", "3", "b", "1">>
T_g1f3 == <<"g", "1", "f", "3">>
T_f1d3 == <<"f", "1", "d", "3">>
T_a7a4 == <<"a", "7", "a", "4">>
T_N == <<"N">>
T_b8c6 == <<"b", "8", "c", "6">>
T_c8a6 == <<"c", "8", "a", "6">>
T_d8b6 == <<"d", "8", "b", "6">>
T_d6h2 == <<"d", "6", "h", "2">>

T_e7e6 == <<"e", "7", "e", "6">>
T_Nc3 == <<"N", "c", "3">>
T_Ngf3 == <<"N", "g", "f", "3">>
T_Nbd3 == <<"N", "b", "d", "3">>
T_exd4 == <<"e", "x", "d", "4">>
T_x2e4 == <<"x", "2", "e", "4">>
T_e9e4 == <<"e", "9", "e", "4">>
T_e2x4 == <<"e", "2", "x", "4">>
T_d8e1 == <<"d", "8", "e", "1">>
T_d2d4 == <<"d", "2", "d", "4">>
T_e5d4 == <<"e", "5", "d", "4">>
T_h1h8 == <<"h", "1", "h", "8">>

\* what the user types in a game
Tokens ==
  CastlingTokens \cup
  {T_g8f6, T_f8d6, T_h8h5, T_Kf1, T_Ke1, T_b8c6, T_c8a6, T_d8b6, T_d6h2,
   T_Nc6, T_c3b1, T_g1f3, T_f1d3, T_a7a4, T_N}

\* the calls of TestCastlingNotation and TestCastlingExecution
Script == <<T_e2e4, T_e7e5, T_Nf3, T_Nf6, T_Bc4, T_Bc5, OO>>

\* what the tests pass to executeMove: the script, a pawn pushed three rows,
\* a token too short to parse and a rook sent onto the rook of the far corner
ExecTokens == {Script[i] : i \in 1 .. Len(Script)} \cup {T_a7a4, T_N, T_h1h8}

\* what the tests pass to isValidMove
ProbeTokens == {OO, OOO, T_e2e4, T_e7e5}

\* the moves of the loops of TestGameFlow, TestMixedNotation, TestDisambiguation
\* and TestInvalidMoves, a pawn's single step and a queen sent to the far row
PlayTokens ==
  {T_e2e4, T_e7e5, T_e7e6, T_Nf3, T_Nc3, T_Nc6, T_Ngf3, T_Nbd3, T_exd4,
   T_x2e4, T_e9e4, T_e2x4, T_d8e1, T_d2d4, T_e5d4}

(* ------------------------------------------------------------------ *)
(* State                                                               *)
(* ------------------------------------------------------------------ *)
VARIABLES
  board,          \* g.board
  currentPlayer,  \* g.currentPlayer: TRUE for White
  status,         \* g.status
  gameState,      \* g.gameState
  displayMode,    \* g.displayMode
  menuSelection,  \* g.menuSelection
  moveInput,      \* g.moveInput.Value()
  executed,       \* history: calls of executeMove so far
  lastOp,         \* history: what the last step did
  lastTok,        \* history: the token of the last step
  lastValid,      \* history: isValidMove on that token, before the step
  kingMoved,      \* history: colours whose King an executed non-castling move moved
  scriptPos       \* history: the calls so far are the first scriptPos of Script (-1: not)

\* package game: the Menu and the Game it creates
VARIABLES
  cursor,         \* m.cursor of the Menu
  gameMode,       \* g.gameMode; ModeMenu while the Menu is the model shown
  input,          \* g.input.Value()
  isAITurn,       \* g.isAITurn
  aiMovePending,  \* g.aiMovePending
  gameHistory,    \* g.gameHistory
  gameErr,        \* g.err
  gameStatus,     \* g.status
  pending,        \* commands Update returned that the runtime has not run yet
  quit,           \* Update returned tea.Quit
  lastKey,        \* history: the key of the last step when it was a key in the game
  positionMoves,  \* the number of moves MoveStr has applied to g.chessGame
  aiRequests      \* history: the calls the last run of getAIMove made to the AI client

chessVars == <<board, currentPlayer, status, gameState, displayMode, menuSelection,
               moveInput, executed, lastOp, lastTok, lastValid, kingMoved, scriptPos>>

\* the position of the library's game and the calls to the AI client
aiVars == <<positionMoves, aiRequests>>

gameVars == <<cursor, gameMode, input, isAITurn, aiMovePending, gameHistory,
              gameErr, gameStatus, pending, quit, lastKey, aiVars>>

\* package ai_player: the AIGame and what its GetAIMove returned last
VARIABLES
  aiGame,         \* the AIGame: GameMode, AIWhite, AIBlack, MoveHistory, Config, CurrentTurn
  aiResult        \* history: the move and the error GetAIMove returned, and its attempts

aiGameVars == <<aiGame, aiResult>>

vars == <<chessVars, gameVars, aiGameVars>>

\* GameMode of package ai_player
ai_ModeHumanVsAI == 0
ModeAIvsAI == 1
ai_ModeHumanVsHuman == 2

\* the fields of Config that AIGame reads
Config(maxRetries, moveHistory) == [MaxRetries |-> maxRetries, MoveHistory |-> moveHistory]

DefaultConfig == Config(3, 5)

\* ValidateConfig returns nil; the other fields are taken as valid
ValidateConfig(c) == ~(c.MaxRetries < 0) /\ ~(c.MoveHistory < 0)

\* NewAIGame; AIWhite and AIBlack tell whether the player is non-nil, and
\* MoveHistory is the length of the slice
NewAIGame(mode, config) ==
  [GameMode |-> mode,
   AIWhite |-> (mode = ModeAIvsAI),
   AIBlack |-> (mode = ai_ModeHumanVsAI \/ mode = ModeAIvsAI),
   MoveHistory |-> 0,
   Config |-> config,
   CurrentTurn |-> "white"]

\* a *ChessMove and an error, nil or not, and the calls of GetMove made
Result(move, err, attempts) == [move |-> move, err |-> err, attempts |-> attempts]

NoResult == Result("nil", "nil", 0)

\* the receiver g of the engine's methods
G == [board |-> board, currentPlayer |-> currentPlayer, status |-> status]

\* NewChessGame; BUBBLECHESS_MODE=text skips the menu
InitChessAndGame ==
  /\ board = NewBoard
  /\ currentPlayer = TRUE
  /\ status = "White's turn"
  /\ \/ gameState = gameStateMenu /\ displayMode = displayModeTUI
     \/ gameState = gameStatePlaying /\ displayMode = displayModeText
  /\ menuSelection = 0
  /\ moveInput = <<>>
  /\ executed = 0
  /\ lastOp = "new"
  /\ lastTok = <<>>
  /\ lastValid = FALSE
  /\ kingMoved = {}
  /\ scriptPos = 0
  /\ cursor = 0
  /\ gameMode = ModeMenu
  /\ input = <<>>
  /\ isAITurn = FALSE
  /\ aiMovePending = FALSE
  /\ gameHistory = <<>>
  /\ gameErr = ""
  /\ gameStatus = "White's turn"
  /\ pending = {}
  /\ quit = FALSE
  /\ lastKey = ""
  /\ positionMoves = 0
  /\ aiRequests = <<>>

\* the programs of the chess and game packages, beside an AIGame of the
\* default configuration
Init ==
  /\ InitChessAndGame
  /\ aiGame = NewAIGame(ai_ModeHumanVsAI, DefaultConfig)
  /\ aiResult = NoResult

\* the colour whose King the parsed move m takes from its square, as a set
KingMoverParsed(g, m) ==
  IF m.err THEN {}
  ELSE IF /\ ~g.board.Squares[m.fromRow][m.fromCol].isNil
          /\ g.board.Squares[m.fromRow][m.fromCol].Type = King
          /\ (m.fromRow # m.toRow \/ m.fromCol # m.toCol)
    THEN {g.board.Squares[m.fromRow][m.fromCol].White}
  ELSE {}

\* the colour whose King the non-castling token move takes from its square
\* when executeMove applies it to g
KingMover(g, move) ==
  IF move \in CastlingTokens THEN {} ELSE KingMoverParsed(g, parseMove(g, move))

(* ------------------------------------------------------------------ *)
(* Update: the keys of the interactive game                            *)
(* ------------------------------------------------------------------ *)
\* KeyUp, KeyLeft (dir = -1) and KeyDown, KeyRight (dir = 1) in the menu
MenuKey(dir) ==
  /\ gameState = gameStateMenu
  /\ menuSelection' = IF dir = -1
                        THEN (IF menuSelection > 0 THEN menuSelection - 1 ELSE menuSelection)
                        ELSE (IF menuSelection < 1 THEN menuSelection + 1 ELSE menuSelection)
  /\ menuSelection' # menuSelection
  /\ lastOp' = "menu"
  /\ UNCHANGED <<board, currentPlayer, status, gameState, displayMode, moveInput,
                 executed, lastTok, lastValid, kingMoved, scriptPos>>
  /\ UNCHANGED <<gameVars, aiGameVars>>

\* KeyEnter in the menu
EnterMenu ==
  /\ gameState = gameStateMenu
  /\ displayMode' = IF menuSelection = 0 THEN displayModeTUI ELSE displayModeText
  /\ gameState' = gameStatePlaying
  /\ moveInput' = <<>>
  /\ status' = updateStatus(G).status
  /\ lastOp' = "menu"
  /\ UNCHANGED <<board, currentPlayer, menuSelection, executed, lastTok, lastValid,
                 kingMoved, scriptPos>>
  /\ UNCHANGED <<gameVars, aiGameVars>>

\* the branch of KeyEnter that executes the move; g2 is the game after
\* executeMove and updateStatus
Accept(move, g2) ==
  /\ executed < MaxMoves
  /\ board' = g2.board
  /\ currentPlayer' = g2.currentPlayer
  /\ status' = g2.status
  /\ moveInput' = <<>>
  /\ executed' = executed + 1
  /\ lastOp' = IF move \in CastlingTokens THEN "castled" ELSE "moved"
  /\ kingMoved' = kingMoved \cup KingMover(G, move)

\* a variant of Reject that passes the turn
Reject_TakesTurn(move) ==
  /\ status' = "Invalid move"
  /\ moveInput' = move
  /\ lastOp' = "rejected"
  /\ currentPlayer' = ~currentPlayer
  /\ UNCHANGED <<board, executed, kingMoved>>

\* the branch of KeyEnter that refuses the move
Reject(move) ==
  /\ status' = "Invalid move"
  /\ moveInput' = move
  /\ lastOp' = "rejected"
  /\ UNCHANGED <<board, currentPlayer, executed, kingMoved>>

EnterChecked(move, valid) ==
  /\ lastTok' = move
  /\ lastValid' = valid
  /\ IF valid THEN Accept(move, updateStatus(executeMove(G, move)))
     ELSE Reject(move)
  /\ UNCHANGED <<gameState, displayMode, menuSelection, scriptPos>>
  /\ UNCHANGED <<gameVars, aiGameVars>>

\* KeyEnter in the game with the text move in the input
EnterMove(move) ==
  /\ gameState # gameStateMenu
  /\ move # <<>>
  /\ EnterChecked(move, isValidMove(G, move))

\* the user types a move and presses Enter
TypeAndEnter == \E move \in Tokens : EnterMove(move)

\* the user presses Enter again on what the input still holds
EnterAgain == moveInput # <<>> /\ EnterMove(moveInput)

Next ==
  \/ \E dir \in {-1, 1} : MenuKey(dir)
  \/ EnterMenu
  \/ TypeAndEnter
  \/ EnterAgain

Spec == Init /\ [][Next]_vars

(* ------------------------------------------------------------------ *)
(* The engine called directly, as the tests of the package call it     *)
(* ------------------------------------------------------------------ *)
\* a variant of CallIsValidMove in which a valid move is applied at once
CallIsValidMove_Commits(move) ==
  /\ lastOp' = "isValidMove"
  /\ lastTok' = move
  /\ lastValid' = isValidMove(G, move)
  /\ board' = IF isValidMove(G, move) THEN executeMove(G, move).board ELSE board
  /\ UNCHANGED <<currentPlayer, status, gameState, displayMode, menuSelection,
                 moveInput, executed, kingMoved, scriptPos>>
  /\ UNCHANGED <<gameVars, aiGameVars>>

CallIsValidMove(move) ==
  /\ lastOp' = "isValidMove"
  /\ lastTok' = move
  /\ lastValid' = isValidMove(G, move)
  /\ UNCHANGED <<board, currentPlayer, status, gameState, displayMode, menuSelection,
                 moveInput, executed, kingMoved, scriptPos>>
  /\ UNCHANGED <<gameVars, aiGameVars>>

\* the state after executeMove returned g2
Executed(move, g2) ==
  /\ board' = g2.board
  /\ currentPlayer' = g2.currentPlayer
  /\ status' = g2.status

\* a test calls executeMove: any MaxCalls calls, and the script to its end
CallExecuteMove(move) ==
  /\ \/ executed < MaxCalls
     \/ (scriptPos = executed /\ scriptPos < Len(Script) /\ move = Script[scriptPos + 1])
  /\ Executed(move, executeMove(G, move))
  /\ executed' = executed + 1
  /\ lastOp' = "executeMove"
  /\ lastTok' = move
  /\ lastValid' = isValidMove(G, move)
  /\ kingMoved' = kingMoved \cup KingMover(G, move)
  /\ scriptPos' = IF scriptPos >= 0 /\ scriptPos < Len(Script)
                       /\ move = Script[scriptPos + 1]
                    THEN scriptPos + 1 ELSE -1
  /\ UNCHANGED <<gameState, displayMode, menuSelection, moveInput>>
  /\ UNCHANGED <<gameVars, aiGameVars>>

NextCalls ==
  \/ \E move \in ProbeTokens : CallIsValidMove(move)
  \/ \E move \in ExecTokens : CallExecuteMove(move)

SpecCalls == Init /\ [][NextCalls]_vars

(* ------------------------------------------------------------------ *)
(* The loop of the tests: a move is executed when isValidMove accepts  *)
(* it and skipped otherwise                                            *)
(* ------------------------------------------------------------------ *)
\* game.executeMove(move) after isValidMove returned true
PlayAccepted(move, g2) ==
  /\ executed < MaxPlays
  /\ Executed(move, g2)
  /\ executed' = executed + 1
  /\ lastOp' = "played"

\* "continue": the move is not executed
PlaySkipped ==
  /\ lastOp' = "skipped"
  /\ UNCHANGED <<board, currentPlayer, status, executed>>

PlayChecked(move, valid) ==
  /\ lastTok' = move
  /\ lastValid' = valid
  /\ IF valid THEN PlayAccepted(move, executeMove(G, move)) ELSE PlaySkipped
  /\ UNCHANGED <<gameState, displayMode, menuSelection, moveInput, kingMoved,
                 scriptPos>>
  /\ UNCHANGED <<gameVars, aiGameVars>>

\* one turn of the loop over the moves
PlayMove(move) == PlayChecked(move, isValidMove(G, move))

NextPlay == \E move \in PlayTokens : PlayMove(move)

SpecPlay == Init /\ [][NextPlay]_vars

(* ------------------------------------------------------------------ *)
(* Package game: the Menu, the Game and the commands its Update        *)
(* returns.  The runtime runs a returned command later, on its own;    *)
(* the chess library and the AI client answer as they please.          *)
(* ------------------------------------------------------------------ *)
\* the keys pressed in the game: runes, apart from Enter
GameKeys == {"e", "h", "q", "r"}

\* the move an AI client answers with
T_e5 == <<"e", "5">>

\* Menu.Update: "up", "k" (dir = -1) and "down", "j" (dir = 1)
MenuNavigate(dir) ==
  /\ gameMode = ModeMenu /\ ~quit
  /\ cursor' = IF dir = -1 THEN (IF cursor > 0 THEN cursor - 1 ELSE cursor)
                ELSE (IF cursor < 1 THEN cursor + 1 ELSE cursor)
  /\ cursor' # cursor
  /\ UNCHANGED <<gameMode, input, isAITurn, aiMovePending, gameHistory, gameErr,
                 gameStatus, pending, quit, lastKey, aiVars>>
  /\ UNCHANGED <<chessVars, aiGameVars>>

\* NewGameWithMode, the fields of the new Game
NewGameWithMode(mode) ==
  /\ gameMode' = mode
  /\ input' = <<>>
  /\ gameStatus' = "White's turn"
  /\ gameHistory' = <<>>
  /\ isAITurn' = FALSE
  /\ aiMovePending' = FALSE
  /\ positionMoves' = 0

\* Menu.Update: "enter" replaces the Menu by a new Game
MenuSelect ==
  /\ gameMode = ModeMenu /\ ~quit
  /\ NewGameWithMode(IF cursor = 0 THEN ModeHumanVsHuman ELSE ModeHumanVsAI)
  /\ UNCHANGED <<cursor, gameErr, pending, quit, lastKey, aiRequests>>
  /\ UNCHANGED <<chessVars, aiGameVars>>

\* textinput's Update on a rune: it is inserted while the value is shorter
\* than CharLimit
InputInsert(value, key) ==
  IF Len(value) < CharLimit THEN Append(value, key) ELSE value

\* Game.Update on a key that is a rune: the shortcuts return before the
\* text input sees the key
UpdateKey(key) ==
  /\ lastKey' = key
  /\ quit' = (key = "q")
  /\ pending' = CASE key = "r" -> pending \cup {<<"resetGame">>}
                   [] key = "h" -> pending \cup {<<"showHelp">>}
                   [] OTHER -> pending
  /\ input' = IF key \notin {"q", "r", "h"} /\ ~isAITurn
                 THEN InputInsert(input, key) ELSE input

KeyPressed(key) ==
  /\ gameMode # ModeMenu /\ ~quit
  /\ Len(input) < MaxInput
  /\ key \in {"r", "h"} => Cardinality(pending) < MaxPending
  /\ UpdateKey(key)
  /\ UNCHANGED <<cursor, gameMode, isAITurn, aiMovePending, gameHistory, gameErr,
                 gameStatus, aiVars>>
  /\ UNCHANGED <<chessVars, aiGameVars>>

\* Game.Update on "enter": makeMove is returned when there is input and it
\* is not the AI's turn; else the key goes to the text input, which ignores it
EnterPressed ==
  /\ gameMode # ModeMenu /\ ~quit
  /\ input # <<>> /\ ~isAITurn
  /\ Cardinality(pending) < MaxPending
  /\ pending' = pending \cup {<<"makeMove", input>>}
  /\ lastKey' = "enter"
  /\ UNCHANGED <<cursor, gameMode, input, isAITurn, aiMovePending, gameHistory,
                 gameErr, gameStatus, quit, aiVars>>
  /\ UNCHANGED <<chessVars, aiGameVars>>

\* Game.Update on a message that is no key (the cursor's blink): the default
\* branch starts the AI move that is pending
OtherMsg ==
  /\ gameMode # ModeMenu /\ ~quit
  /\ aiMovePending
  /\ Cardinality(pending) < MaxPending
  /\ aiMovePending' = FALSE
  /\ pending' = pending \cup {<<"getAIMove">>}
  /\ lastKey' = ""
  /\ UNCHANGED <<cursor, gameMode, input, isAITurn, gameHistory, gameErr,
                 gameStatus, quit, aiVars>>
  /\ UNCHANGED <<chessVars, aiGameVars>>

\* the command of makeMove runs; ok is the answer of the library's MoveStr
makeMove(cmd, ok) ==
  /\ cmd \in pending /\ cmd[1] = "makeMove" /\ ~quit
  /\ pending' = pending \ {cmd}
  /\ lastKey' = ""
  /\ IF ~ok
       THEN /\ gameErr' = "invalid move"
            /\ UNCHANGED <<gameHistory, gameStatus, input, isAITurn, aiMovePending,
                           positionMoves>>
     ELSE /\ Len(gameHistory) < MaxHistory
          /\ gameErr' = ""
          /\ positionMoves' = positionMoves + 1
          /\ gameHistory' = Append(gameHistory, cmd[2])
          /\ input' = <<>>
          /\ isAITurn' = IF gameMode = ModeHumanVsAI THEN TRUE ELSE isAITurn
          /\ aiMovePending' = IF gameMode = ModeHumanVsAI THEN TRUE ELSE aiMovePending
          /\ gameStatus' = IF gameMode = ModeHumanVsAI THEN "AI is thinking..."
                           ELSE "turn"
  /\ UNCHANGED <<cursor, gameMode, quit, aiRequests>>
  /\ UNCHANGED <<chessVars, aiGameVars>>

\* the command of resetGame runs
resetGame ==
  /\ <<"resetGame">> \in pending /\ ~quit
  /\ pending' = pending \ {<<"resetGame">>}
  /\ gameStatus' = "White's turn"
  /\ gameErr' = ""
  /\ input' = <<>>
  /\ gameHistory' = <<>>
  /\ isAITurn' = FALSE
  /\ aiMovePending' = FALSE
  /\ positionMoves' = 0
  /\ lastKey' = ""
  /\ UNCHANGED <<cursor, gameMode, quit, aiRequests>>
  /\ UNCHANGED <<chessVars, aiGameVars>>

\* the command of showHelp runs
showHelp ==
  /\ <<"showHelp">> \in pending /\ ~quit
  /\ pending' = pending \ {<<"showHelp">>}
  /\ gameStatus' = "Help: Use algebraic notation (e.g., e4, Nf3, O-O)"
  /\ lastKey' = ""
  /\ UNCHANGED <<cursor, gameMode, input, isAITurn, aiMovePending, gameHistory,
                 gameErr, quit, aiVars>>
  /\ UNCHANGED <<chessVars, aiGameVars>>

\* the error text of the library's MoveStr
MoveStrError == "invalid move"

\* a call of the AI client, GetAIMove or GetAIMoveWithError with the error
\* text, and what came of it: the client failed ("error"), MoveStr refused
\* the move ("refused") or applied it ("applied")
ClientCall(method, errorMsg, answer) ==
  [method |-> method, errorMsg |-> errorMsg, answer |-> answer]

\* a variant of ClientCalls that asks for a replacement a second time when the
\* replacement is invalid too
ClientCalls_AsksAgain(outcome) ==
  CASE outcome = "ok" -> <<ClientCall("GetAIMove", "", "applied")>>
    [] outcome = "aiError" -> <<ClientCall("GetAIMove", "", "error")>>
    [] outcome = "retryError" ->
         <<ClientCall("GetAIMove", "", "refused"),
           ClientCall("GetAIMoveWithError", MoveStrError, "error")>>
    [] outcome = "retryInvalid" ->
         <<ClientCall("GetAIMove", "", "refused"),
           ClientCall("GetAIMoveWithError", MoveStrError, "refused"),
           ClientCall("GetAIMoveWithError", MoveStrError, "refused")>>
    [] OTHER ->
         <<ClientCall("GetAIMove", "", "refused"),
           ClientCall("GetAIMoveWithError", MoveStrError, "applied")>>

\* the calls getAIMove makes to the AI client: GetAIMove, and
\* retryAIMoveWithError once when MoveStr refuses the first move
ClientCalls(outcome) ==
  CASE outcome = "ok" -> <<ClientCall("GetAIMove", "", "applied")>>
    [] outcome = "aiError" -> <<ClientCall("GetAIMove", "", "error")>>
    [] outcome = "retryError" ->
         <<ClientCall("GetAIMove", "", "refused"),
           ClientCall("GetAIMoveWithError", MoveStrError, "error")>>
    [] outcome = "retryInvalid" ->
         <<ClientCall("GetAIMove", "", "refused"),
           ClientCall("GetAIMoveWithError", MoveStrError, "refused")>>
    [] OTHER ->
         <<ClientCall("GetAIMove", "", "refused"),
           ClientCall("GetAIMoveWithError", MoveStrError, "applied")>>

\* the command of getAIMove runs; outcome is what the AI client and the
\* library answer: the move is applied ("ok"), the client fails ("aiError"),
\* the move is invalid and the retry fails ("retryError"), is invalid too
\* ("retryInvalid") or is applied ("retryOk")
getAIMove(outcome) ==
  /\ <<"getAIMove">> \in pending /\ ~quit
  /\ pending' = pending \ {<<"getAIMove">>}
  /\ lastKey' = ""
  /\ aiRequests' = ClientCalls(outcome)
  /\ IF outcome \in {"ok", "retryOk"}
       THEN /\ Len(gameHistory) < MaxHistory
            /\ positionMoves' = positionMoves + 1
            /\ gameHistory' = Append(gameHistory, T_e5)
            /\ gameStatus' = "turn"
            /\ isAITurn' = FALSE
            /\ aiMovePending' = FALSE
            /\ gameErr' = IF outcome = "ok" THEN gameErr ELSE "Invalid AI move"
     ELSE /\ gameErr' = CASE outcome = "aiError" -> "AI error"
                          [] outcome = "retryError" -> "Invalid AI move"
                          [] OTHER -> "AI failed to make valid move after retry"
          /\ UNCHANGED <<gameHistory, gameStatus, isAITurn, aiMovePending,
                         positionMoves>>
  /\ UNCHANGED <<cursor, gameMode, input, quit>>
  /\ UNCHANGED <<chessVars, aiGameVars>>

NextGame ==
  \/ \E dir \in {-1, 1} : MenuNavigate(dir)
  \/ MenuSelect
  \/ \E key \in GameKeys : KeyPressed(key)
  \/ EnterPressed
  \/ OtherMsg
  \/ \E cmd \in pending, ok \in BOOLEAN : makeMove(cmd, ok)
  \/ resetGame
  \/ showHelp
  \/ \E outcome \in {"ok", "aiError", "retryError", "retryInvalid", "retryOk"} :
       getAIMove(outcome)

SpecGame == Init /\ [][NextGame]_vars

\* the runtime keeps delivering messages: a command Update returned is run,
\* and a message that is no key reaches Update while an AI move is pending
SpecGameFair ==
  /\ SpecGame
  /\ WF_vars(OtherMsg)
  /\ WF_vars(\E cmd \in pending, ok \in BOOLEAN : makeMove(cmd, ok))
  /\ WF_vars(resetGame)
  /\ WF_vars(showHelp)
  /\ WF_vars(\E outcome \in {"ok", "aiError", "retryError", "retryInvalid", "retryOk"} :
               getAIMove(outcome))

(* ------------------------------------------------------------------ *)
(* Properties                                                          *)
(* ------------------------------------------------------------------ *)
\* the game as the next state holds it
GNext == [board |-> board', currentPlayer |-> currentPlayer', status |-> status']

C2_RejectedEnterKeepsGame ==
  [][lastOp' = "rejected" =>
       /\ board' = board
       /\ currentPlayer' = currentPlayer
       /\ moveInput' = lastTok'
       /\ ~isValidMove(GNext, moveInput')]_vars

\* a pawn pushed three rows was refused in the middle of a game
C2_Witness ==
  lastOp = "rejected" /\ lastTok = T_a7a4 /\ moveInput = T_a7a4 /\ executed >= 2

\* C3: executeMove with a token isValidMove rejects leaves the squares, the
\* flags and currentPlayer as they were.
C3_ExecuteMoveRejectsIllegal ==
  [][(lastOp' = "executeMove" /\ ~lastValid') =>
       (board' = board /\ currentPlayer' = currentPlayer)]_vars

\* C4: isValidMove, its castling branch and the parser and locator it calls
\* write neither the board, nor a castling flag, nor currentPlayer.
C4_IsValidMoveWritesNothing ==
  [][lastOp' = "isValidMove" => (board' = board /\ currentPlayer' = currentPlayer)]_vars

\* isValidMove took its castling branch after the six moves of the script
C4_Witness == lastOp = "isValidMove" /\ lastTok = OO /\ scriptPos = 6

\* C5: a castling flag that is true stays true, whatever token is entered.
C5_FlagsStayTrue ==
  [][/\ board.WhiteKingMoved => board'.WhiteKingMoved
     /\ board.WhiteRookKingsideMoved => board'.WhiteRookKingsideMoved
     /\ board.WhiteRookQueensideMoved => board'.WhiteRookQueensideMoved
     /\ board.BlackKingMoved => board'.BlackKingMoved
     /\ board.BlackRookKingsideMoved => board'.BlackRookKingsideMoved
     /\ board.BlackRookQueensideMoved => board'.BlackRookQueensideMoved]_vars

\* White castled and later took a pawn with the bishop
C5_Witness ==
  /\ board.WhiteKingMoved /\ board.WhiteRookKingsideMoved
  /\ lastOp = "moved" /\ lastTok = T_d6h2

\* the square a castling token sends the King of the side to move to
CastlingDest(g, move) ==
  <<IF g.currentPlayer THEN 7 ELSE 0, IF move = OO \/ move = ZZ THEN 6 ELSE 2>>

\* the token resolves to a destination square that holds a piece of the
\* side to move
DestHoldsOwnPiece(g, move) ==
  IF move \in CastlingTokens
    THEN LET d == CastlingDest(g, move)
         IN  /\ ~g.board.Squares[d[1]][d[2]].isNil
             /\ g.board.Squares[d[1]][d[2]].White = g.currentPlayer
  ELSE LET m == parseMove(g, move)
       IN  /\ ~m.err
           /\ ~g.board.Squares[m.toRow][m.toCol].isNil
           /\ g.board.Squares[m.toRow][m.toCol].White = g.currentPlayer

\* C6: a token whose destination square holds a piece of the side to move
\* is rejected by isValidMove.
C6_NoSelfCapture ==
  \A move \in Tokens : DestHoldsOwnPiece(G, move) => ~isValidMove(G, move)

\* Kf1 was refused while White's own bishop stood on f1
C6_Witness ==
  /\ lastOp = "rejected" /\ lastTok = T_Kf1 /\ currentPlayer
  /\ board.Squares[7][4] = Piece(TRUE, King)
  /\ board.Squares[7][5] = Piece(TRUE, Bishop)

\* C7: once an executed non-castling move has moved the King of a colour,
\* isValidMove rejects the four castling tokens on every turn of that colour.
C7_KingMoveEndsCastling ==
  \A c \in kingMoved :
    currentPlayer = c => \A move \in CastlingTokens : ~isValidMove(G, move)

\* C8: right after an accepted castling the King and the Rook of the colour
\* that castled stand on columns 6 and 5 (kingside) or 2 and 3 (queenside)
\* of its back row, the King's home square and the Rook's corner are
\* empty, and the King flag and that Rook's flag are true.
C8_CastlingPlacesKingAndRook ==
  lastOp = "castled" =>
    LET white == ~currentPlayer
        row == IF white THEN 7 ELSE 0
        kingside == (lastTok = OO \/ lastTok = ZZ)
        sq == board.Squares
    IN  /\ sq[row][IF kingside THEN 6 ELSE 2] = Piece(white, King)
        /\ sq[row][IF kingside THEN 5 ELSE 3] = Piece(white, Rook)
        /\ sq[row][4].isNil
        /\ sq[row][IF kingside THEN 7 ELSE 0].isNil
        /\ IF white THEN board.WhiteKingMoved ELSE board.BlackKingMoved
        /\ CASE white /\ kingside -> board.WhiteRookKingsideMoved
             [] white /\ ~kingside -> board.WhiteRookQueensideMoved
             [] ~white /\ kingside -> board.BlackRookKingsideMoved
             [] OTHER -> board.BlackRookQueensideMoved

\* the rule of castling legality, by colour and side
CastlingRule(g, move) ==
  LET white == g.currentPlayer
      row == IF white THEN 7 ELSE 0
      kingside == (move = OO \/ move = ZZ)
      kingFlag == IF white THEN g.board.WhiteKingMoved ELSE g.board.BlackKingMoved
      rookFlag == CASE white /\ kingside -> g.board.WhiteRookKingsideMoved
                    [] white /\ ~kingside -> g.board.WhiteRookQueensideMoved
                    [] ~white /\ kingside -> g.board.BlackRookKingsideMoved
                    [] OTHER -> g.board.BlackRookQueensideMoved
      between == IF kingside THEN {5, 6} ELSE {1, 2, 3}
  IN  ~kingFlag /\ ~rookFlag /\ \A c \in between : g.board.Squares[row][c].isNil

\* C9: isValidMove accepts a castling token exactly when the King flag and
\* the flag of the Rook of that side are false and the squares between the
\* King's home square and the Rook's corner are empty; in the initial
\* position it rejects all four.
C9_CastlingAcceptedIffRule ==
  /\ \A move \in CastlingTokens : isValidMove(G, move) <=> CastlingRule(G, move)
  /\ board = NewBoard => \A move \in CastlingTokens : ~isValidMove(G, move)

\* Black's kingside castling was accepted after White had castled queenside
C9_Witness ==
  /\ lastOp = "castled" /\ lastValid /\ currentPlayer
  /\ board.WhiteRookQueensideMoved /\ board.BlackRookKingsideMoved

\* C10: after executeMove on e2e4, e7e5, Nf3, Nf6, Bc4, Bc5, isValidMove
\* accepts O-O, and executeMove on O-O puts the White King on g1 and the
\* White Rook on f1 and empties e1 and h1.
C10_ScriptThenCastle ==
  /\ scriptPos = 6 => isValidMove(G, OO)
  /\ scriptPos = 7 =>
       /\ board.Squares[7][6] = Piece(TRUE, King)
       /\ board.Squares[7][5] = Piece(TRUE, Rook)
       /\ board.Squares[7][4].isNil
       /\ board.Squares[7][7].isNil

\* the array square a square name denotes: file a is column 0, rank 1 is
\* row 7, White's back row in setupPieces
NamedRow(rankChar) == 7 - ByteDiff(rankChar, "1")
NamedCol(fileChar) == ByteDiff(fileChar, "a")

Files == {"a", "b", "c", "d", "e", "f", "g", "h"}
Ranks == {"1", "2", "3", "4", "5", "6", "7", "8"}

\* a token of the shape [a-h][1-8][a-h][1-8]
IsLong(move) ==
  /\ Len(move) = 4
  /\ move[1] \in Files /\ move[2] \in Ranks /\ move[3] \in Files /\ move[4] \in Ranks

\* the squares sq2 are the squares sq after the piece on (fr, fc) went to
\* (tr, tc)
MovedFromTo(sq, sq2, fr, fc, tr, tc) ==
  /\ ~sq[fr][fc].isNil
  /\ sq2[tr][tc] = sq[fr][fc]
  /\ sq2[fr][fc].isNil
  /\ \A r \in Rows, c \in Rows :
       (<<r, c>> # <<fr, fc>> /\ <<r, c>> # <<tr, tc>>) => sq2[r][c] = sq[r][c]

\* C11: a long-notation token that isValidMove accepts and executeMove
\* executes takes the piece of the origin square it names to the destination
\* square it names, empties the origin and changes no other square.
C11_LongMoveFromOriginToDest ==
  [][(lastOp' = "played" /\ IsLong(lastTok')) =>
       MovedFromTo(board.Squares, board'.Squares,
                   NamedRow(lastTok'[2]), NamedCol(lastTok'[1]),
                   NamedRow(lastTok'[4]), NamedCol(lastTok'[3]))]_vars

\* the long-notation token that goes from the square f r to itself, and a
\* short-notation token whose destination is f r
LongTokenOn(f, r) == <<f, r, f, r>>
ShortTokenTo(f, r) == <<"N", f, r>>

\* C12: a square name denotes one array square in both notations: the row and
\* column parseMove decodes for f r in a long-notation token are those
\* parseShortNotation decodes for the destination f r, and rank 1 is row 7,
\* rank 8 is row 0.
C12_OneSquarePerName ==
  \A f \in Files, r \in Ranks :
    LET long == parseMove(G, LongTokenOn(f, r))
        short == parseShortNotation(G, ShortTokenTo(f, r))
    IN  (~long.err /\ ~short.err) =>
          /\ long.toRow = short.toRow /\ long.toCol = short.toCol
          /\ long.fromRow = short.toRow /\ long.fromCol = short.toCol
          /\ long.toRow = NamedRow(r) /\ long.toCol = NamedCol(f)

\* short-notation tokens made of a piece letter and a destination
NoHintTokens == {T_Nf3, T_Nc3, T_Nf6, T_Nc6, T_Bc4, T_Bc5}

\* the pieces of the kind the token names and of the side to move that the
\* validator lets go to the token's destination
Reachers(g, move) ==
  {p \in Candidates(g, PieceTypeOf(move[1]), g.currentPlayer) :
     ValidParsed(g, Parsed(p[1], p[2], NamedRow(move[3]), NamedCol(move[2])))}

\* the token is accepted and executing it moves the piece on p
AcceptedAndMoves(g, move, p) ==
  /\ isValidMove(g, move)
  /\ MovedFromTo(g.board.Squares, executeMove(g, move).board.Squares,
                 p[1], p[2], NamedRow(move[3]), NamedCol(move[2]))

OnlyReacherMoves(g, move, reachers) ==
  Cardinality(reachers) = 1 => AcceptedAndMoves(g, move, CHOOSE p \in reachers : TRUE)

\* C13: when exactly one piece of the kind a hint-less short-notation token
\* names, of the side to move, can reach the destination, isValidMove accepts
\* the token and executeMove moves that piece; in a new game Nf3 and Nc3 are
\* accepted for White and Nc3 takes the b1 knight to c3.
C13_OnlyReacherIsMoved ==
  /\ \A move \in NoHintTokens : OnlyReacherMoves(G, move, Reachers(G, move))
  /\ (board = NewBoard /\ currentPlayer) =>
       /\ isValidMove(G, T_Nf3)
       /\ AcceptedAndMoves(G, T_Nc3, <<7, 1>>)

\* short-notation tokens with a file hint after the piece letter
HintTokens == {T_Ngf3, T_Nbd3}

\* the candidates of findPiece standing on the column the hint names
OnHintedFile(candidates, move) ==
  {p \in candidates : p[2] = NamedCol(move[2])}

\* findPiece returns p and executing the token moves the piece on p
ResolvedTo(g, move, p) ==
  /\ findPiece(g, PieceTypeOf(move[1]), g.currentPlayer, move) = Found(p)
  /\ MovedFromTo(g.board.Squares, executeMove(g, move).board.Squares,
                 p[1], p[2], NamedRow(move[4]), NamedCol(move[3]))

HintDecides(g, move, candidates, hinted) ==
  (Cardinality(candidates) > 1 /\ Cardinality(hinted) = 1) =>
    ResolvedTo(g, move, CHOOSE p \in hinted : TRUE)

HintResolves(g, move, candidates) ==
  HintDecides(g, move, candidates, OnHintedFile(candidates, move))

\* C14: with several pieces of the requested kind and colour on the board and
\* a file hint that is the column of exactly one of them, findPiece returns
\* that piece's square and executeMove moves that piece to the destination.
C14_FileHintPicksPiece ==
  \A move \in HintTokens :
    HintResolves(G, move, Candidates(G, PieceTypeOf(move[1]), currentPlayer))

\* Ngf3 was played with White's knights on b1 and g1: the g1 knight went to f3
C14_Witness ==
  /\ lastOp = "played" /\ lastTok = T_Ngf3 /\ executed = 1
  /\ board.Squares[5][5] = Piece(TRUE, Knight)
  /\ board.Squares[7][6].isNil
  /\ board.Squares[7][1] = Piece(TRUE, Knight)

\* the parsed origin holds a pawn of the side to move on the file fileChar
OriginIsPawnOnFile(g, m, fileChar) ==
  /\ m.fromCol = NamedCol(fileChar)
  /\ g.board.Squares[m.fromRow][m.fromCol] = Piece(g.currentPlayer, Pawn)

\* a pawn of the side to move on the file move[1] that the validator lets
\* capture on the destination move[3] move[4]
PawnCanCapture(g, move) ==
  \E r \in Rows :
    /\ g.board.Squares[r][NamedCol(move[1])] = Piece(g.currentPlayer, Pawn)
    /\ ~g.board.Squares[NamedRow(move[4])][NamedCol(move[3])].isNil
    /\ ValidParsed(g, Parsed(r, NamedCol(move[1]),
                             NamedRow(move[4]), NamedCol(move[3])))

PawnCaptureResolved(g, move, m) ==
  /\ ~m.err => OriginIsPawnOnFile(g, m, move[1])
  /\ PawnCanCapture(g, move) => isValidMove(g, move)

\* C15: for the pawn capture token exd4 the origin the parser resolves is a
\* pawn of the side to move on file e, and isValidMove accepts the token
\* when that pawn can capture diagonally on d4.
C15_PawnCaptureFromNamedFile ==
  PawnCaptureResolved(G, T_exd4, parseMove(G, T_exd4))

\* the moves of TestInvalidMoves: no castling token, no token of the shape
\* [a-h][1-8][a-h][1-8], no short-notation token
T_abc == <<"a", "b", "c">>
T_Nx == <<"N", "x">>
T_OOOO == <<"O", "-", "O", "-", "O", "-", "O">>

MalformedTokens == {<<>>, T_abc, T_N, T_Nx, T_OOOO, T_x2e4, T_e9e4, T_e2x4}

\* C16: isValidMove returns false in every position for the empty token and
\* for every token that is no castling token, no long-notation token and no
\* well-formed short-notation token, x2e4, e9e4 and e2x4 among them.
C16_MalformedTokensRejected ==
  \A move \in MalformedTokens : ~isValidMove(G, move)

\* the token for the two-square advance of the pawn of the side to move on
\* file f: f2 to f4 for White, f7 to f5 for Black
TwoStepToken(white, f) ==
  IF white THEN <<f, "2", f, "4">> ELSE <<f, "7", f, "5">>

\* the pawn on row startRow of column col: refused when the next square is
\* occupied, accepted when the next square and the destination are empty
TwoStepRule(g, move, col, startRow, nextRow, destRow) ==
  g.board.Squares[startRow][col] = Piece(g.currentPlayer, Pawn) =>
    /\ ~g.board.Squares[nextRow][col].isNil => ~isValidMove(g, move)
    /\ (g.board.Squares[nextRow][col].isNil /\ g.board.Squares[destRow][col].isNil)
         => isValidMove(g, move)

\* C17: a pawn on its starting row (row 6 for White, row 1 for Black) is
\* refused a two-square advance when the square in front of it is occupied
\* and allowed it when that square and the destination are empty: White's
\* e2e4 with e3 occupied against e3 empty.
C17_TwoStepNeedsClearPath ==
  \A f \in Files :
    IF currentPlayer
      THEN TwoStepRule(G, TwoStepToken(TRUE, f), NamedCol(f), 6, 5, 4)
    ELSE TwoStepRule(G, TwoStepToken(FALSE, f), NamedCol(f), 1, 2, 3)

\* C18: in every state reached from a new game by moves isValidMove accepted
\* the board holds exactly one White King and exactly one Black King.
C18_OneKingEach ==
  /\ Cardinality(Candidates(G, King, TRUE)) = 1
  /\ Cardinality(Candidates(G, King, FALSE)) = 1

MoveChars == Files \cup Ranks \cup {"K", "Q", "R", "B", "N", "x", "O", "0", "-"}

\* C20: in the game of package game, while it is the human's turn, a key
\* that is a character of a move token is handed to the move input and
\* appended to it.
C20_MoveCharsReachInput ==
  [][(lastKey' \in MoveChars /\ ~isAITurn) => input' = Append(input, lastKey')]_vars

\* the castling flags of b that belong to piece when it leaves column fromCol
FlagsOf(piece, fromCol) ==
  IF piece.isNil THEN {}
  ELSE IF piece.Type = King
    THEN {IF piece.White THEN "WhiteKingMoved" ELSE "BlackKingMoved"}
  ELSE IF piece.Type = Rook /\ fromCol = 0
    THEN {IF piece.White THEN "WhiteRookQueensideMoved" ELSE "BlackRookQueensideMoved"}
  ELSE IF piece.Type = Rook /\ fromCol = 7
    THEN {IF piece.White THEN "WhiteRookKingsideMoved" ELSE "BlackRookKingsideMoved"}
  ELSE {}

FlagNames ==
  {"WhiteKingMoved", "WhiteRookKingsideMoved", "WhiteRookQueensideMoved",
   "BlackKingMoved", "BlackRookKingsideMoved", "BlackRookQueensideMoved"}

\* the value of the flag called name
Flag(b, name) ==
  CASE name = "WhiteKingMoved" -> b.WhiteKingMoved
    [] name = "WhiteRookKingsideMoved" -> b.WhiteRookKingsideMoved
    [] name = "WhiteRookQueensideMoved" -> b.WhiteRookQueensideMoved
    [] name = "BlackKingMoved" -> b.BlackKingMoved
    [] name = "BlackRookKingsideMoved" -> b.BlackRookKingsideMoved
    [] OTHER -> b.BlackRookQueensideMoved

\* after the move m of the game g the flags of the piece that moved are true
\* in the board b2
MoverFlagged(g, m, b2) ==
  \A name \in FlagsOf(g.board.Squares[m.fromRow][m.fromCol], m.fromCol) :
    Flag(b2, name)

\* C21: after executeMove applied a non-castling move the flag of the piece
\* that moved is true: the king flag of its colour for a King, the queenside
\* (kingside) rook flag of its colour for a Rook that left column 0 (7).
C21_MoverFlagSet ==
  [][lastOp' = "moved" => MoverFlagged(G, parseMove(G, lastTok'), board')]_vars

\* the move m of the game g changed, from g.board to b2, only flags of the
\* piece that moved
OnlyMoverFlagged(g, m, b2) ==
  \A name \in FlagNames :
    Flag(b2, name) # Flag(g.board, name) =>
      name \in FlagsOf(g.board.Squares[m.fromRow][m.fromCol], m.fromCol)

\* C22: a non-castling move changes no castling flag but the one of the King
\* or Rook that moved; pawns, knights, bishops and queens change none, and
\* no move changes a flag of the colour that did not move.
C22_OnlyMoverFlagChanges ==
  [][lastOp' = "played" => OnlyMoverFlagged(G, parseMove(G, lastTok'), board')]_vars

FileChars == <<"a", "b", "c", "d", "e", "f", "g", "h">>
RankChars == <<"1", "2", "3", "4", "5", "6", "7", "8">>

\* the long-notation token that parseMove decodes to the origin
\* (fromRow, fromCol) and the destination (toRow, toCol)
LongToken(fromRow, fromCol, toRow, toCol) ==
  <<FileChars[fromCol + 1], RankChars[fromRow + 1],
    FileChars[toCol + 1], RankChars[toRow + 1]>>

\* the pawn on p may go two rows along its column to row toRow only from
\* the starting row of its colour
TwoRowsOnlyFromStart(g, p, toRow) ==
  (toRow \in Rows /\ isValidMove(g, LongToken(p[1], p[2], toRow, p[2]))) =>
    IF g.currentPlayer THEN p[1] = 6 /\ toRow = 4 ELSE p[1] = 1 /\ toRow = 3

\* C23: isValidMove rejects every pawn move of two rows along the column
\* unless the pawn stands on the starting row of its colour (row 6 to row 4
\* for White, row 1 to row 3 for Black).
C23_TwoRowsOnlyFromStartRow ==
  \A p \in Candidates(G, Pawn, currentPlayer) :
    /\ TwoRowsOnlyFromStart(G, p, p[1] - 2)
    /\ TwoRowsOnlyFromStart(G, p, p[1] + 2)

\* the pawn on p may leave its column for (toRow, toCol) only by one column,
\* one row forward, onto a piece of the other colour
DiagonalOnlyAsCapture(g, p, toRow, toCol) ==
  (toCol # p[2] /\ isValidMove(g, LongToken(p[1], p[2], toRow, toCol))) =>
    /\ abs(toCol - p[2]) = 1
    /\ toRow = IF g.currentPlayer THEN p[1] - 1 ELSE p[1] + 1
    /\ ~g.board.Squares[toRow][toCol].isNil
    /\ g.board.Squares[toRow][toCol].White # g.currentPlayer

\* C24: isValidMove accepts a pawn move that changes column only when the
\* column changes by one, the row by one in the pawn's forward direction
\* (down the rows for White, up for Black) and the destination holds a piece
\* of the other colour; a diagonal step to an empty square is rejected.
C24_PawnLeavesColumnOnlyToCapture ==
  \A p \in Candidates(G, Pawn, currentPlayer) :
    \A toRow \in Rows, toCol \in Rows : DiagonalOnlyAsCapture(G, p, toRow, toCol)

\* White's pawn took Black's pawn diagonally: e7e5, d2d4, e5d4 in the
\* notation parseMove decodes
C24_Witness ==
  /\ lastOp = "played" /\ lastTok = T_e5d4 /\ lastValid /\ executed = 3
  /\ board.Squares[3][3] = Piece(TRUE, Pawn)
  /\ board.Squares[4][4].isNil

\* the distance between two rows or two columns
Delta(a, b) == IF a < b THEN b - a ELSE a - b

\* the reference rule of the pieces other than pawns; no kind looks at the
\* squares in between
ReferenceRule(type, rowDelta, colDelta) ==
  CASE type = King -> rowDelta <= 1 /\ colDelta <= 1
    [] type = Knight -> {rowDelta, colDelta} = {1, 2}
    [] type = Bishop -> rowDelta = colDelta
    [] type = Rook -> rowDelta = 0 \/ colDelta = 0
    [] OTHER -> TRUE

\* the squares holding a piece of the side to move that is no pawn
OwnPieces(g) ==
  {p \in Rows \X Rows :
     /\ ~g.board.Squares[p[1]][p[2]].isNil
     /\ g.board.Squares[p[1]][p[2]].White = g.currentPlayer
     /\ g.board.Squares[p[1]][p[2]].Type # Pawn}

\* the destination is empty or holds a piece of the other colour
FreeOrOpposing(g, toRow, toCol) ==
  \/ g.board.Squares[toRow][toCol].isNil
  \/ g.board.Squares[toRow][toCol].White # g.currentPlayer

VerdictIsReference(g, p, toRow, toCol) ==
  FreeOrOpposing(g, toRow, toCol) =>
    (isValidMove(g, LongToken(p[1], p[2], toRow, toCol))
       <=> ReferenceRule(g.board.Squares[p[1]][p[2]].Type,
                         Delta(p[1], toRow), Delta(p[2], toCol)))

\* C25: for an origin holding a piece of the side to move that is no pawn and
\* a destination that is empty or holds a piece of the other colour, the
\* verdict of isValidMove is the reference rule: King one square around,
\* Knight deltas 1 and 2, Bishop equal deltas, Rook one delta 0, Queen
\* always, no kind stopped by a piece in between.
C25_PieceVerdictIsReferenceRule ==
  \A p \in OwnPieces(G) :
    \A toRow \in Rows, toCol \in Rows : VerdictIsReference(G, p, toRow, toCol)

\* White's queen went from d1 over its own pawn to Black's back row
C25_Witness ==
  /\ lastOp = "played" /\ lastTok = T_d8e1 /\ lastValid
  /\ board.Squares[0][4] = Piece(TRUE, Queen)
  /\ board.Squares[6][3] = Piece(TRUE, Pawn)
  /\ board.Squares[7][3].isNil

\* the long-notation tokens from a square to a square at most two rows and
\* two columns away: the steps of pawns, kings and knights among them
LongTokens ==
  {LongToken(p[1], p[2], q[1], q[2]) :
     <<p, q>> \in {pq \in (Rows \X Rows) \X (Rows \X Rows) :
                    Delta(pq[1][1], pq[2][1]) <= 2 /\ Delta(pq[1][2], pq[2][2]) <= 2}}

\* the origin the token resolves to holds a piece of the side to move
OriginIsOwn(g, m) ==
  /\ ~m.err
  /\ ~g.board.Squares[m.fromRow][m.fromCol].isNil
  /\ g.board.Squares[m.fromRow][m.fromCol].White = g.currentPlayer

AcceptedOnlyFromOwn(g, move) ==
  isValidMove(g, move) => OriginIsOwn(g, parseMove(g, move))

\* C26: isValidMove rejects every non-castling token whose resolved origin is
\* empty or holds a piece of the colour that is not to move: an accepted
\* non-castling move moves a piece of the side to move.
C26_AcceptedMovesOwnPiece ==
  \A move \in LongTokens \cup PlayTokens : AcceptedOnlyFromOwn(G, move)

\* e2e4, which parseMove resolves to Black's pawn, was refused on White's turn
C26_Witness ==
  /\ lastOp = "skipped" /\ lastTok = T_e2e4 /\ ~lastValid /\ currentPlayer
  /\ board.Squares[1][4] = Piece(FALSE, Pawn)


(* ------------------------------------------------------------------ *)
(* C27: a refused castling changes nothing but the status line         *)
(* ------------------------------------------------------------------ *)
\* C27: when executeMove is called with a castling token while
\* isValidCastling does not hold, no square and no flag of the board
\* changes and the side to move stays the same
C27_RefusedCastlingMovesNothing ==
  [][(/\ lastOp' = "executeMove"
      /\ lastTok' \in CastlingTokens
      /\ ~isValidCastling(G, lastTok'))
     => (board' = board /\ currentPlayer' = currentPlayer)]_vars

\* White's castling was refused because the kingside rook's flag is set,
\* and it is still White's turn
C27_Witness ==
  /\ lastOp = "executeMove"
  /\ lastTok = OO
  /\ ~lastValid
  /\ currentPlayer
  /\ status = CannotCastleMoved
  /\ board.WhiteRookKingsideMoved
  /\ ~board.WhiteKingMoved

(* ------------------------------------------------------------------ *)
(* C28: a short token without a hint                                   *)
(* ------------------------------------------------------------------ *)
T_Ng5 == <<"N", "g", "5">>

\* the short-notation tokens made of a piece letter and a destination square
PieceLetters == {"N", "B", "R"}
HintlessTokens ==
  {<<k, f, r>> : <<k, f, r>> \in PieceLetters \X Files \X Ranks} \cup {T_Ng5}

\* with several candidates, findPiece returns the first one of the scan
FirstCandidateFound(g, move, candidates) ==
  Cardinality(candidates) > 1 =>
    findPiece(g, PieceTypeOf(move[1]), g.currentPlayer, move)
      = Found(FirstInScan(candidates))

\* C28: for a short-notation token with no hint and several pieces of the
\* named kind of the side to move, findPiece returns the first candidate in
\* row-major order, whatever the file letter of the destination is.
C28_NoHintPicksFirstCandidate ==
  \A move \in HintlessTokens :
    FirstCandidateFound(G, move, Candidates(G, PieceTypeOf(move[1]), currentPlayer))

(* ------------------------------------------------------------------ *)
(* C29: a rank digit as hint                                           *)
(* ------------------------------------------------------------------ *)
T_N1d3 == <<"N", "1", "d", "3">>

\* short-notation tokens with a rank digit after the piece letter
RankHintTokens == {<<"N", r, "d", "3">> : r \in Ranks} \cup {T_N1d3}

\* the candidates of findPiece standing on the rank the hint names, the
\* rank being decoded as the rank of a destination is
OnHintedRank(candidates, move) ==
  {p \in candidates : p[1] = NamedRow(move[2])}

\* findPiece returns one of the squares of hinted
ResolvedAmong(g, move, hinted) ==
  \E p \in hinted :
    findPiece(g, PieceTypeOf(move[1]), g.currentPlayer, move) = Found(p)

RankHintDecides(g, move, candidates, hinted) ==
  (Cardinality(candidates) > 1 /\ hinted # {}) => ResolvedAmong(g, move, hinted)

\* C29: with several pieces of the requested kind and colour on the board and
\* a rank-digit hint naming a rank on which one of them stands, findPiece
\* returns a piece on that rank, rank 1 being array row 7 as in the decoding
\* of a destination.
C29_RankHintPicksPieceOnRank ==
  \A move \in RankHintTokens :
    RankHintDecides(G, move, Candidates(G, PieceTypeOf(move[1]), currentPlayer),
                    OnHintedRank(Candidates(G, PieceTypeOf(move[1]), currentPlayer),
                                 move))

(* ------------------------------------------------------------------ *)
(* C30: what findPiece returns                                         *)
(* ------------------------------------------------------------------ *)
PieceTypes == {Pawn, Knight, Bishop, Rook, Queen, King}

\* the move strings findPiece is called with: the empty one of parseCastling
\* and of TestPieceFinding, a single letter, and short-notation tokens whose
\* second byte is a destination file, a file hint or a rank hint
FindTokens == {<<>>, T_N, T_Nc3, T_Nf3, T_Nc6, T_Ngf3, T_Nbd3, T_N1d3}

\* res is what findPiece may return for the candidates
FindPieceResult(g, pieceType, isWhite, move, candidates, res) ==
  /\ res.found <=> candidates # {}
  /\ res.found =>
       /\ res.row \in 0 .. 7 /\ res.col \in 0 .. 7
       /\ ~g.board.Squares[res.row][res.col].isNil
       /\ g.board.Squares[res.row][res.col].Type = pieceType
       /\ g.board.Squares[res.row][res.col].White = isWhite
  /\ (candidates # {} /\ \A p \in candidates : ~canDisambiguate(p[1], p[2], move))
       => res = Found(FirstInScan(candidates))

\* C30: findPiece reports not-found exactly when no piece of the kind and
\* colour is on the board; otherwise it returns in-range coordinates of a
\* square holding such a piece, and that square is the first candidate in
\* row-major order whenever the hint matches no candidate.
C30_FindPieceReturnsCandidate ==
  \A pieceType \in PieceTypes, isWhite \in BOOLEAN, move \in FindTokens :
    FindPieceResult(G, pieceType, isWhite, move,
                    Candidates(G, pieceType, isWhite),
                    findPiece(G, pieceType, isWhite, move))

\* the Black King was taken by d8e1 and is not found; Black then played Nc6,
\* whose hint c matched neither knight, and the first knight of the scan, b8,
\* went to c6
C30_Witness ==
  /\ lastOp = "played" /\ lastTok = T_Nc6 /\ lastValid /\ executed = 2
  /\ board.Squares[0][4] = Piece(TRUE, Queen)
  /\ ~findPiece(G, King, FALSE, <<>>).found
  /\ board.Squares[2][2] = Piece(FALSE, Knight)
  /\ board.Squares[0][1].isNil
  /\ board.Squares[0][6] = Piece(FALSE, Knight)

(* ------------------------------------------------------------------ *)
(* C31: a token that is only a square name                             *)
(* ------------------------------------------------------------------ *)
T_e4 == <<"e", "4">>

\* the two-character tokens that name a square
SquareTokens == {<<f, r>> : <<f, r>> \in Files \X Ranks} \cup {T_e4}

\* the pawns of the side to move that the validator lets go to the square
PawnReachers(g, move) ==
  {p \in Candidates(g, Pawn, g.currentPlayer) :
     ValidParsed(g, Parsed(p[1], p[2], NamedRow(move[2]), NamedCol(move[1])))}

\* the token is parsed as a move to the square it names, and accepted when
\* a pawn of the side to move can go there
ParsedAsPawnMove(g, move, m, reachers) ==
  /\ Candidates(g, Pawn, g.currentPlayer) # {} =>
       (~m.err /\ m.toRow = NamedRow(move[2]) /\ m.toCol = NamedCol(move[1]))
  /\ reachers # {} => isValidMove(g, move)

\* C31: a two-character token naming a square is parsed as a pawn move of
\* the side to move to that square, not rejected as invalid notation, and
\* isValidMove accepts it when a pawn of the side to move can advance there.
C31_SquareNameIsPawnMove ==
  \A move \in SquareTokens :
    ParsedAsPawnMove(G, move, parseMove(G, move), PawnReachers(G, move))

(* ------------------------------------------------------------------ *)
(* C32: one castling per colour                                        *)
(* ------------------------------------------------------------------ *)
\* the colour white has just castled: Update accepted a castling token and
\* executeCastling passed the turn to the other colour
CastledBy(white) == lastOp = "castled" /\ lastValid /\ currentPlayer = ~white

\* isValidMove rejects the four castling tokens when it is white's turn
NoCastlingFor(white) ==
  currentPlayer = white => \A move \in CastlingTokens : ~isValidMove(G, move)

\* C32: once a castling by a colour has been executed, isValidMove rejects
\* all four castling tokens on every later turn of that colour.
C32_OneCastlingPerColour ==
  \A white \in BOOLEAN : [](CastledBy(white) => []NoCastlingFor(white))

\* White castled kingside, Black moved, and White's next castling token was
\* rejected
C32_Witness ==
  /\ lastOp = "rejected" /\ lastTok \in CastlingTokens /\ ~lastValid
  /\ currentPlayer
  /\ executed >= 6
  /\ board.WhiteKingMoved /\ board.WhiteRookKingsideMoved
  /\ board.Squares[7][6] = Piece(TRUE, King)
  /\ board.Squares[7][5] = Piece(TRUE, Rook)
  /\ board.Squares[7][4].isNil

(* ------------------------------------------------------------------ *)
(* C33: accepted moves preserve the pieces                             *)
(* ------------------------------------------------------------------ *)
\* how many pieces of the colour and kind stand on the squares S of sq
CountOf(S, sq, white, type) ==
  Cardinality({p \in S : sq[p[1]][p[2]] = Piece(white, type)})

\* the numbers of pieces of a colour on the squares S, kind by kind
CountsOf(S, sq, white) == [type \in PieceTypes |-> CountOf(S, sq, white, type)]

\* the squares whose content differs between sq and sq2
Changed(sq, sq2) ==
  {p \in {r \in Rows : sq[r] # sq2[r]} \X Rows : sq[p[1]][p[2]] # sq2[p[1]][p[2]]}

\* the sum of the six numbers
TotalOf(counts) ==
  counts[Pawn] + counts[Knight] + counts[Bishop] + counts[Rook] + counts[Queen]
    + counts[King]

\* from the counts before to the counts after a move of the colour mover
CountsPreserved(moverBefore, moverAfter, otherBefore, otherAfter) ==
  /\ moverAfter = moverBefore
  /\ \A type \in PieceTypes : otherAfter[type] <= otherBefore[type]
  /\ TotalOf(otherAfter) >= TotalOf(otherBefore) - 1

\* the squares outside S hold the same pieces before and after
PreservedOn(S, sq, sq2, mover) ==
  \A moverBefore \in {CountsOf(S, sq, mover)}, moverAfter \in {CountsOf(S, sq2, mover)},
     otherBefore \in {CountsOf(S, sq, ~mover)}, otherAfter \in {CountsOf(S, sq2, ~mover)} :
    CountsPreserved(moverBefore, moverAfter, otherBefore, otherAfter)

PiecesPreserved(sq, sq2, mover) ==
  \A S \in {Changed(sq, sq2)} : PreservedOn(S, sq, sq2, mover)

\* C33: a move that isValidMove accepts and executeMove applies, castling
\* included, creates no piece and changes no piece's kind or colour: the
\* mover has as many pieces of each kind as before, and the opponent has at
\* most one piece less and no more of any kind.
C33_AcceptedMovePreservesPieces ==
  [][(lastOp' \in {"moved", "castled"} /\ lastValid')
     => PiecesPreserved(board.Squares, board'.Squares, currentPlayer)]_vars

\* White castled after a capture had taken one of Black's sixteen pieces
C33_Witness ==
  /\ lastOp = "castled" /\ lastValid
  /\ ~currentPlayer
  /\ TotalOf(CountsOf(Rows \X Rows, board.Squares, TRUE)) = 16
  /\ TotalOf(CountsOf(Rows \X Rows, board.Squares, FALSE)) = 15

(* ------------------------------------------------------------------ *)
(* The long-notation engine of src/main.go                             *)
(* ------------------------------------------------------------------ *)
\* the switch on piece.Type of isValidMove in src/main.go
main_PieceRule(g, fromRow, fromCol, toRow, toCol) ==
  LET sq == g.board.Squares
      piece == sq[fromRow][fromCol]
      white == g.currentPlayer
  IN  CASE piece.Type = Pawn ->
             IF fromCol = toCol
               THEN IF sq[toRow][toCol].isNil
                      THEN LET pathClear ==
                                 /\ ~(white /\ fromRow = 6 /\ toRow = 4
                                        /\ ~sq[5][fromCol].isNil)
                                 /\ ~(~white /\ fromRow = 1 /\ toRow = 3
                                        /\ ~sq[2][fromCol].isNil)
                           IN  /\ pathClear
                               /\ \/ (white /\ (toRow = fromRow - 1 \/ toRow = fromRow - 2))
                                  \/ (~white /\ (toRow = fromRow + 1 \/ toRow = fromRow + 2))
                    ELSE FALSE
             ELSE IF abs(fromCol - toCol) = 1
               THEN /\ ~sq[toRow][toCol].isNil
                    /\ sq[toRow][toCol].White # white
                    /\ \/ (white /\ toRow = fromRow - 1)
                       \/ (~white /\ toRow = fromRow + 1)
             ELSE FALSE
        [] piece.Type = King ->
             abs(fromRow - toRow) <= 1 /\ abs(fromCol - toCol) <= 1
        [] OTHER -> TRUE

\* isValidMove of src/main.go once the four bytes are decoded
main_ValidSquares(g, fromRow, fromCol, toRow, toCol) ==
  IF ~LongSquares(fromCol, fromRow, toCol, toRow) THEN FALSE
  ELSE IF g.board.Squares[fromRow][fromCol].isNil THEN FALSE
  ELSE IF g.board.Squares[fromRow][fromCol].White # g.currentPlayer THEN FALSE
  ELSE main_PieceRule(g, fromRow, fromCol, toRow, toCol)

main_isValidMove(g, move) ==
  IF Len(move) # 4 THEN FALSE
  ELSE main_ValidSquares(g, ByteDiff(At(move, 1), "1"), ByteDiff(At(move, 0), "a"),
                         ByteDiff(At(move, 3), "1"), ByteDiff(At(move, 2), "a"))

\* executeMove of src/main.go: "Move piece" and "Switch player"
main_executeMove(g, move) ==
  [g EXCEPT
     !.board = [g.board EXCEPT
        !.Squares = MovePiece(g.board.Squares,
                      Parsed(ByteDiff(At(move, 1), "1"), ByteDiff(At(move, 0), "a"),
                             ByteDiff(At(move, 3), "1"), ByteDiff(At(move, 2), "a")))],
     !.currentPlayer = ~g.currentPlayer]

T_a8a7 == <<"a", "8", "a", "7">>
T_e8e7 == <<"e", "8", "e", "7">>
T_a1a2 == <<"a", "1", "a", "2">>

\* what the user types in the game of src/main.go
MainTokens ==
  {T_e7e5, T_e2e4, T_a8a7, T_e8e7, T_a1a2, T_g8f6, T_g1f3, T_d8e1, T_a7a4, T_N, T_e9e4}

\* NewChessGame of src/main.go: no menu, the board of setupPieces
InitMain == Init /\ gameState = gameStatePlaying

\* KeyEnter accepted: executeMove, the input cleared, updateStatus
MainAccepted(move, g2) ==
  /\ executed < MaxMainMoves
  /\ Executed(move, g2)
  /\ moveInput' = <<>>
  /\ executed' = executed + 1
  /\ lastOp' = "main moved"

\* KeyEnter refused
MainRejected(move) ==
  /\ status' = "Invalid move"
  /\ moveInput' = move
  /\ lastOp' = "main rejected"
  /\ UNCHANGED <<board, currentPlayer, executed>>

MainChecked(move, valid) ==
  /\ lastTok' = move
  /\ lastValid' = valid
  /\ IF valid THEN MainAccepted(move, updateStatus(main_executeMove(G, move)))
     ELSE MainRejected(move)
  /\ UNCHANGED <<gameState, displayMode, menuSelection, kingMoved, scriptPos>>
  /\ UNCHANGED <<gameVars, aiGameVars>>

\* the user types a move and presses Enter
MainEnter(move) == move # <<>> /\ MainChecked(move, main_isValidMove(G, move))

NextMain == \E move \in MainTokens : MainEnter(move)

SpecMain == InitMain /\ [][NextMain]_vars

(* ------------------------------------------------------------------ *)
(* C34: self-capture in src/main.go                                    *)
(* ------------------------------------------------------------------ *)
\* the destination of the long-notation token, as src/main.go decodes it,
\* holds a piece of the side to move
main_DestIsOwn(g, move) ==
  /\ ~g.board.Squares[ByteDiff(At(move, 3), "1")][ByteDiff(At(move, 2), "a")].isNil
  /\ g.board.Squares[ByteDiff(At(move, 3), "1")][ByteDiff(At(move, 2), "a")].White
       = g.currentPlayer

\* C34: isValidMove of src/main.go returns false whenever the destination
\* square holds a piece of the side to move, for every piece kind.
C34_MainRefusesSelfCapture ==
  \A move \in LongTokens : main_isValidMove(G, move) => ~main_DestIsOwn(G, move)

(* ------------------------------------------------------------------ *)
(* C35: the AI's turn ends                                             *)
(* ------------------------------------------------------------------ *)
\* C35: in Human-vs-AI mode, once isAITurn is true a state with isAITurn
\* false is eventually reached (or the program has quit), whatever the AI
\* client and the library answer, as long as messages keep being delivered.
C35_AITurnEnds == isAITurn ~> (~isAITurn \/ quit)

(* ------------------------------------------------------------------ *)
(* C36: one replacement move                                           *)
(* ------------------------------------------------------------------ *)
\* this step is a run of the command of getAIMove
GetAIMoveRan == <<"getAIMove">> \in pending /\ <<"getAIMove">> \notin pending'

\* MoveStr refused the move the call brought
Refused(call) == call.answer = "refused"

\* the calls of one run: a refused first move is followed by one call of
\* GetAIMoveWithError carrying the error text, anything else by no call
OneReplacement(calls) ==
  /\ Len(calls) \in {1, 2}
  /\ calls[1].method = "GetAIMove"
  /\ IF Refused(calls[1])
       THEN /\ Len(calls) = 2
            /\ calls[2].method = "GetAIMoveWithError"
            /\ calls[2].errorMsg = MoveStrError
     ELSE Len(calls) = 1

\* C36: when the library refuses the AI's first move, getAIMove asks for
\* exactly one replacement, passing the error text; a run makes at most two
\* calls to the AI client; and when the replacement is refused too no move
\* is applied to the position and gameHistory is unchanged.
C36_OneReplacementRequest ==
  [][GetAIMoveRan =>
       /\ OneReplacement(aiRequests')
       /\ Refused(aiRequests'[Len(aiRequests')]) =>
            (gameHistory' = gameHistory /\ positionMoves' = positionMoves)]_vars

\* the AI's first move and its replacement were both refused: two calls
\* were made and the human's move is still the only one
C36_Witness ==
  /\ gameMode = ModeHumanVsAI
  /\ gameErr = "AI failed to make valid move after retry"
  /\ Len(aiRequests) = 2
  /\ aiRequests[2].method = "GetAIMoveWithError"
  /\ Refused(aiRequests[1]) /\ Refused(aiRequests[2])
  /\ Len(gameHistory) = 1 /\ positionMoves = 1
  /\ isAITurn

(* ------------------------------------------------------------------ *)
(* C37: a reset while the AI's answer is awaited                       *)
(* ------------------------------------------------------------------ *)
\* resetGame ran while the command of getAIMove had not yet run, and
\* nothing has changed the game since
FreshlyResetAwaitingAI ==
  /\ <<"getAIMove">> \in pending
  /\ ~isAITurn /\ ~aiMovePending
  /\ gameHistory = <<>> /\ gameErr = "" /\ positionMoves = 0
  /\ gameStatus = "White's turn"

\* C37: when the AI's answer arrives after a reset, the game is still in
\* the starting position, with an empty gameHistory and an empty error.
C37_LateAnswerKeepsReset ==
  [][(FreshlyResetAwaitingAI /\ GetAIMoveRan) =>
       (gameHistory' = <<>> /\ gameErr' = "" /\ positionMoves' = 0)]_vars

(* ------------------------------------------------------------------ *)
(* Package ai_player: AIGame                                           *)
(* ------------------------------------------------------------------ *)
\* the retry loop of GetAIMove from the attempt on; answers[i] tells whether
\* the i-th call of GetMove returns a move (and a nil error)
RECURSIVE RetryLoop(_, _, _, _)
RetryLoop(attempt, maxRetries, answers, res) ==
  IF attempt <= maxRetries
    THEN IF answers[attempt] THEN Result("move", "nil", attempt)
         ELSE RetryLoop(attempt + 1, maxRetries, answers,
                        Result("nil", "GetMove failed", attempt))
  ELSE res

\* the end of GetAIMove: the error of the loop is wrapped, else the move is
\* returned
AfterLoop(res) ==
  IF res.err # "nil" THEN Result("nil", "AI failed to generate move", res.attempts)
  ELSE Result(res.move, "nil", res.attempts)

GetAIMove(g, answers) ==
  IF g.CurrentTurn \notin {"white", "black"}
    THEN Result("nil", "invalid current turn", 0)
  ELSE IF ~(IF g.CurrentTurn = "white" THEN g.AIWhite ELSE g.AIBlack)
    THEN Result("nil", "no AI player", 0)
  ELSE AfterLoop(RetryLoop(1, g.Config.MaxRetries, answers, NoResult))

\* the configurations ValidateConfig accepts, within the bounds
ValidConfigs ==
  {c \in {Config(r, h) : r \in -1 .. MaxMaxRetries, h \in -1 .. MaxMoveHistory} :
     ValidateConfig(c)}

\* a game of any mode made with a configuration ValidateConfig accepts
InitAIGame ==
  /\ InitChessAndGame
  /\ \E mode \in {ai_ModeHumanVsAI, ModeAIvsAI, ai_ModeHumanVsHuman}, c \in ValidConfigs :
       aiGame = NewAIGame(mode, c)
  /\ aiResult = NoResult

\* the other programs do not run
OnlyAIGame ==
  /\ UNCHANGED <<board, currentPlayer, status, gameState, displayMode, menuSelection,
                 moveInput, executed, lastTok, lastValid, kingMoved, scriptPos>>
  /\ UNCHANGED gameVars

\* GetAIMove is called; the AI player answers as it pleases
CallGetAIMove(answers) ==
  /\ aiResult' = GetAIMove(aiGame, answers)
  /\ lastOp' = "GetAIMove"
  /\ UNCHANGED aiGame
  /\ OnlyAIGame

SwitchTurn ==
  /\ aiGame' = [aiGame EXCEPT
                  !.CurrentTurn = IF aiGame.CurrentTurn = "white" THEN "black" ELSE "white"]
  /\ lastOp' = "SwitchTurn"
  /\ UNCHANGED aiResult
  /\ OnlyAIGame

\* AddMove: the history keeps the last Config.MoveHistory moves
AddMove ==
  /\ aiGame' = [aiGame EXCEPT
                  !.MoveHistory = IF aiGame.MoveHistory + 1 > aiGame.Config.MoveHistory
                                    THEN aiGame.Config.MoveHistory
                                  ELSE aiGame.MoveHistory + 1]
  /\ aiGame' # aiGame
  /\ lastOp' = "AddMove"
  /\ UNCHANGED aiResult
  /\ OnlyAIGame

NextAIGame ==
  \/ \E answers \in [1 .. aiGame.Config.MaxRetries -> BOOLEAN] : CallGetAIMove(answers)
  \/ SwitchTurn
  \/ AddMove

SpecAIGame == InitAIGame /\ [][NextAIGame]_vars

(* ------------------------------------------------------------------ *)
(* C38: a move or an error                                             *)
(* ------------------------------------------------------------------ *)
\* C38: GetAIMove returns either a non-nil move with a nil error or a nil
\* move with a non-nil error, for every configuration ValidateConfig accepts
\* and every pattern of successes and failures of the AI player.
C38_MoveOrError ==
  lastOp = "GetAIMove" =>
    \/ (aiResult.move # "nil" /\ aiResult.err = "nil")
    \/ (aiResult.move = "nil" /\ aiResult.err # "nil")

====
